---------------------------- MODULE Spec2Model ----------------------------
(***************************************************************************)
(* A model of src/visualization_app.py, the walkthrough-survey dashboard.  *)
(*                                                                         *)
(* The script is run top to bottom on every user interaction.  One run is  *)
(* modelled as a walk of the program counter pc through the script's       *)
(* sections; every section is one action that computes the section's       *)
(* aggregates from df and appends what it renders to `rendered`.           *)
(*                                                                         *)
(* Conventions                                                             *)
(*   - a text cell is a string; a missing cell is NaN;                     *)
(*   - the raw affiliation cell and the column headers are sequences of    *)
(*     text pieces (so that trimming and substring search are computed,    *)
(*     not assumed); a blank is the piece " ";                             *)
(*   - the table df is a bag of rows: no aggregate of the script depends   *)
(*     on the order of the rows;                                           *)
(*   - a percentage is an exact fraction [num, den]; den = 0 is the result *)
(*     of a division by zero (NaN);                                        *)
(*   - a pandas Series is a sequence of entries [label, num, den].         *)
(***************************************************************************)
EXTENDS Integers, Sequences, FiniteSets, Bags

\* ------------------------------------------------------------------ bounds
\* rows of an uploaded file in the purpose and talk-most input families
MaxRows == 3
\* rows of an uploaded file in the focus-area input family
MaxFocusRows == 2
\* pieces of a raw affiliation cell in the affiliation input family
MaxAffLen == 3
\* rows of an uploaded file in the trend input families
MaxTrendRows == 2
\* rows of an uploaded file in the school-name input family
MaxSchoolRows == 2

\* ------------------------------------------------------------------ values
NaN == "NaN"

\* --------------------------------------------------------- generic helpers
RECURSIVE SeqSum(_)
SeqSum(s) == IF s = <<>> THEN 0 ELSE Head(s) + SeqSum(Tail(s))

\* t occurs in s as a contiguous run of pieces (Python's `t in s` on text)
Contains(s, t) ==
    \E i \in 0..(Len(s) - Len(t)) :
        \A k \in 1..Len(t) : s[i + k] = t[k]

\* the rows of bag b that satisfy P, with their multiplicities
Filter(b, P(_)) == [r \in {x \in DOMAIN b : P(x)} |-> b[r]]

\* the bag of f(r) for the rows r of b
MapBag(b, f(_)) ==
    [y \in {f(x) : x \in DOMAIN b} |->
        BagCardinality([x \in {z \in DOMAIN b : f(z) = y} |-> b[x]])]

\* number of rows of b
NRows(b) == BagCardinality(b)

\* number of rows of b that satisfy P
CountRows(b, P(_)) == BagCardinality(Filter(b, P))

\* all bags of at most n rows drawn from the set D
RECURSIVE BagsUpTo(_, _)
BagsUpTo(D, n) ==
    IF n = 0 THEN {EmptyBag}
    ELSE LET S == BagsUpTo(D, n - 1)
         IN  S \cup {b (+) SetToBag({r}) : b \in S, r \in D}

\* all sequences over the set T of length at most n
RECURSIVE SeqsUpTo(_, _)
SeqsUpTo(T, n) ==
    IF n = 0 THEN {<<>>}
    ELSE LET S == SeqsUpTo(T, n - 1)
         IN  S \cup {Append(s, t) : s \in S, t \in T}

\* ------------------------------------------------------- exact fractions
Frac(n, d) == [num |-> n, den |-> d]
FracEq(a, b) == a.num * b.den = b.num * a.den
FracLess(a, b) == a.num * b.den < b.num * a.den
Zero == Frac(0, 1)

\* the fraction in lowest terms (the same number)
RECURSIVE GCD(_, _)
GCD(a, b) == IF b = 0 THEN a ELSE GCD(b, a % b)
Reduced(f) ==
    IF f.den = 0 \/ f.num = 0 THEN f
    ELSE Frac(f.num \div GCD(f.num, f.den), f.den \div GCD(f.num, f.den))
\* a variant of Pct that leaves out the factor 100
PctAsRatio(count, total) == Frac(count, total)

\* 100 * count / total as the script's float division computes it
Pct(count, total) == Frac(100 * count, total)

\* the exact sum of the values of a Series
RECURSIVE SeriesSum(_)
SeriesSum(s) ==
    IF s = <<>> THEN Frac(0, 1)
    ELSE LET rest == SeriesSum(Tail(s))
         IN  Frac(Head(s).num * rest.den + rest.num * Head(s).den,
                  Head(s).den * rest.den)

\* a Series entry; rank is the place of the label in the order of labels
Entry(l, rk, f) == [label |-> l, rank |-> rk, num |-> f.num, den |-> f.den]

\* the order of a sort: "index" is ascending by the rank of the label,
\* "value" is descending by the value
EntryBefore(mode, a, b) ==
    IF mode = "index" THEN a.rank < b.rank
    ELSE a.num * b.den > b.num * a.den

\* stable insertion sort of a sequence of entries
RECURSIVE InsertSorted(_, _, _)
InsertSorted(s, e, mode) ==
    IF s = <<>> THEN <<e>>
    ELSE IF EntryBefore(mode, e, Head(s)) THEN <<e>> \o s
    ELSE <<Head(s)>> \o InsertSorted(Tail(s), e, mode)

RECURSIVE SortBy(_, _)
SortBy(s, mode) ==
    IF s = <<>> THEN <<>>
    ELSE InsertSorted(SortBy(SubSeq(s, 1, Len(s) - 1), mode), s[Len(s)], mode)

\* ============================================================== NORMALIZER
\* --------------------------------------------------- school-name renaming
\* school_name_map and Series.replace: a mapped name is substituted, every
\* other value (NaN included) passes through
school_name_map ==
    [x \in {"Cane Ridge", "Hillsboro", "Maplewood"} |->
        CASE x = "Cane Ridge" -> "School B"
          [] x = "Hillsboro"  -> "School E"
          [] x = "Maplewood"  -> "School F"]

\* a variant of ReplaceSchool that substitutes nothing
ReplaceNoSchool(name) == name

ReplaceSchool(name) ==
    IF name \in DOMAIN school_name_map THEN school_name_map[name] ELSE name

\* ------------------------------------------------------------ affiliation
\* astype(str): a missing cell (the empty text) becomes the text "nan"
AsStr(cell) == IF cell = <<>> THEN <<"nan">> ELSE cell

\* str.strip(): leading and trailing blanks are removed
RECURSIVE LStrip(_)
LStrip(s) == IF s # <<>> /\ Head(s) = " " THEN LStrip(Tail(s)) ELSE s

RECURSIVE RStrip(_)
RStrip(s) ==
    IF s # <<>> /\ s[Len(s)] = " " THEN RStrip(SubSeq(s, 1, Len(s) - 1)) ELSE s

Strip(s) == RStrip(LStrip(s))

\* the dict given to Series.map: exact match, anything else is NaN
AffiliationMap(text) ==
    CASE text = <<"MNPS Support Hub">>  -> "SH"
      [] text = <<"This school's ILT">> -> "ILT"
      [] OTHER -> NaN

\* a variant of Affiliation that does not trim the cell
AffiliationUntrimmed(cell) == AffiliationMap(AsStr(cell))

Affiliation(cell) == AffiliationMap(Strip(AsStr(cell)))

\* -------------------------------------------------------------- talk-most
talk_col == "Who talked the most during the debrief conversation?"

talk_label_map ==
    [x \in {"No one person spoke significantly more than others",
            "Other ILT members (not the executive principal)",
            "Other support hub members (not EDs)",
            "The executive director(s)"} |->
        CASE x = "No one person spoke significantly more than others"
                 -> "No one person spoke significantly more"
          [] x = "Other ILT members (not the executive principal)"
                 -> "Other ILT members"
          [] x = "Other support hub members (not EDs)"
                 -> "Other Support Hub members"
          [] x = "The executive director(s)"
                 -> "The executive director"]

\* a variant of TalkLabel that keeps the raw survey text
TalkLabelRaw(raw) == raw

\* Series.map(talk_label_map): a value that is no key becomes NaN
TalkLabel(raw) ==
    IF raw \in DOMAIN talk_label_map THEN talk_label_map[raw] ELSE NaN

\* ------------------------------------------------------- purpose headers
\* label_mapping, in the dict's insertion order; a text is a sequence of
\* pieces, cut so that the long phrases and the short labels share pieces
label_mapping ==
    << [long  |-> <<"Identify areas for instructional improvement",
                    " for the math or ELA team at this school">>,
        short |-> <<"Identify areas for instructional improvement">>],
       [long  |-> <<"Identify needed professional learning supports",
                    " regarding math or ELA teaching">>,
        short |-> <<"Identify needed professional learning supports">>],
       [long  |-> <<"Sharpen our eye for quality ", "math or ELA ", "instruction">>,
        short |-> <<"Sharpen our eye for quality ", "instruction">>],
       [long  |-> <<"Monitor progress on this school", "s theory of action">>,
        short |-> <<"Monitor progress on this school", "'", "s theory of action">>],
       [long  |-> <<"Identify additional ",
                    "supports to enhance curriculum implementation">>,
        short |-> <<"Identify additional ", "curricular implementation supports">>],
       [long  |-> <<"Provide feedback to individual teachers">>,
        short |-> <<"Provide feedback to individual teachers">>],
       [long  |-> <<"Evaluate individual teacher competence">>,
        short |-> <<"Evaluate individual teacher competence">>] >>

\* clean_column_name: the short label of the first long phrase found in the
\* header, the header itself when none is found
RECURSIVE CleanFrom(_, _)
CleanFrom(colname, k) ==
    IF k > Len(label_mapping) THEN colname
    ELSE IF Contains(colname, label_mapping[k].long) THEN label_mapping[k].short
    ELSE CleanFrom(colname, k + 1)

\* a variant of clean_column_name whose label for one phrase is the long
\* phrase of another
CleanToLongPhrase(colname) ==
    IF Contains(colname, label_mapping[6].long) THEN label_mapping[1].long
    ELSE CleanFrom(colname, 1)

clean_column_name(colname) == CleanFrom(colname, 1)

PurposePrefix == "The purpose of this walkthrough was to:"

\* purpose_columns: the positions of the headers that start with the prefix,
\* in file order
IsPurposeHeader(h) == h # <<>> /\ Head(h) = PurposePrefix

purpose_columns(headers) ==
    SelectSeq([i \in 1..Len(headers) |-> i], LAMBDA i : IsPurposeHeader(headers[i]))

\* cleaned_purpose_cols: the cleaned header of each purpose column
cleaned_purpose_cols(headers) ==
    [k \in 1..Len(purpose_columns(headers)) |->
        clean_column_name(headers[purpose_columns(headers)[k]])]

\* ------------------------------------------------------------ focus areas
focus_keys ==
    << "Staying on pace in the curriculum",
       "Using the curriculum with integrity",
       "Standards-aligned and/or grade-appropriate content",
       "Addressing the specific needs of marginalized learners" >>

response_order ==
    << "A great deal of focus", "Some focus", "A minor focus", "Not a focus" >>

n_focus == Len(focus_keys)
n_resp == Len(response_order)

\* ----------------------------------------------------------- other columns
theory_col == "Today's debrief discussion felt connected to this school's theory of action"
accountability_col ==
    "Support hub staff were primarily focused on holding this school accountable for results"

\* the columns the script reads by exact name
NamedColumns ==
    {"School Name", "Your affiliation:", talk_col, "Date", theory_col,
     accountability_col} \cup {focus_keys[i] : i \in 1..n_focus}

\* ============================================================== AGGREGATOR
\* df[df["Affiliation"] == aff]
ByAffiliation(b, aff) == Filter(b, LAMBDA r : r.Affiliation = aff)

\* (b[col] == "Checked").sum() for the header at position col
CheckedCount(b, col) == CountRows(b, LAMBDA r : r.checks[col] = "Checked")

\* (b[purpose_columns] == "Checked").sum(): one count per purpose column
CheckedCounts(b, headers) ==
    [k \in 1..Len(purpose_columns(headers)) |->
        CheckedCount(b, purpose_columns(headers)[k])]

\* the place of a purpose label in the ascending order of sort_index
AlphabeticalLabels ==
    << <<"Evaluate individual teacher competence">>,
       <<"Identify additional ", "curricular implementation supports">>,
       <<"Identify areas for instructional improvement">>,
       <<"Identify needed professional learning supports">>,
       <<"Monitor progress on this school", "'", "s theory of action">>,
       <<"Provide feedback to individual teachers">>,
       <<"Sharpen our eye for quality ", "instruction">> >>

LabelRank(label) ==
    IF \E i \in 1..Len(AlphabeticalLabels) : AlphabeticalLabels[i] = label
    THEN CHOOSE i \in 1..Len(AlphabeticalLabels) : AlphabeticalLabels[i] = label
    ELSE Len(AlphabeticalLabels) + 1

\* a variant of PurposeDenominator that divides by the size of the group
DenominatorGroupSize(b, headers) == NRows(b)

\* the denominator of the purpose percentages: counts.sum()
PurposeDenominator(b, headers) == SeqSum(CheckedCounts(b, headers))

\* a variant of PurposePercent without the test of the sum
PurposePercentUnguarded(b, headers) ==
    LET counts == CheckedCounts(b, headers)
        labels == cleaned_purpose_cols(headers)
        total  == PurposeDenominator(b, headers)
    IN  SortBy([k \in 1..Len(counts) |->
                  Entry(labels[k], LabelRank(labels[k]), Pct(counts[k], total))],
               "index")

\* support_percent / ilt_percent / school_*_percent: 100 * counts / counts.sum()
\* under the labels of cleaned_purpose_cols when the sum is positive, the empty
\* Series otherwise; then sort_index()
PurposePercent(b, headers) ==
    LET counts == CheckedCounts(b, headers)
        labels == cleaned_purpose_cols(headers)
        total  == PurposeDenominator(b, headers)
    IN  IF total > 0
        THEN SortBy([k \in 1..Len(counts) |->
                        Entry(labels[k], LabelRank(labels[k]), Pct(counts[k], total))],
                    "index")
        ELSE <<>>

\* the canonical talk-most labels, in the order used to break ties
TalkLabels ==
    << "No one person spoke significantly more", "Other ILT members",
       "Other Support Hub members", "The executive director" >>

\* value_counts() of the TalkLabel column: one entry per label that occurs
\* (NaN never counts)
TalkCount(b, label) == CountRows(b, LAMBDA r : r.TalkLabel = label)

TalkValueCounts(b) ==
    SortBy(SelectSeq([i \in 1..Len(TalkLabels) |->
                        Entry(TalkLabels[i], i, Frac(TalkCount(b, TalkLabels[i]), 1))],
                     LAMBDA e : e.num > 0),
           "value")

\* get_talk_percentages
get_talk_percentages(df_subset) ==
    LET filtered == Filter(df_subset, LAMBDA r : r.TalkLabel # NaN)
        counts   == TalkValueCounts(filtered)
        total    == SeqSum([k \in 1..Len(counts) |-> counts[k].num])
    IN  IF total > 0
        THEN SortBy([k \in 1..Len(counts) |->
                        Entry(counts[k].label, counts[k].rank, Pct(counts[k].num, total))],
                    "value")
        ELSE <<>>

\* a variant of DropNaFocus that drops on a missing affiliation only
DropNaAffiliationOnly(b) == Filter(b, LAMBDA r : r.Affiliation # NaN)

\* df.dropna(subset=["Affiliation"] + focus_keys)
DropNaFocus(b) ==
    Filter(b, LAMBDA r : r.Affiliation # NaN /\ \A i \in 1..n_focus : r.focus[focus_keys[i]] # NaN)

\* a variant of FocusDist without the reindex: only the responses that occur
FocusDistAsCounted(subset, raw_col) ==
    LET answered == Filter(subset, LAMBDA r : r.focus[raw_col] # NaN)
        n        == NRows(answered)
        count(j) == CountRows(answered, LAMBDA r : r.focus[raw_col] = response_order[j])
        present  == SelectSeq([j \in 1..n_resp |-> j], LAMBDA j : count(j) > 0)
    IN  [k \in 1..Len(present) |-> Pct(count(present[k]), n)]

\* subset[raw_col].value_counts(normalize=True).reindex(response_order,
\* fill_value=0).values * 100
FocusDist(subset, raw_col) ==
    LET answered == Filter(subset, LAMBDA r : r.focus[raw_col] # NaN)
        n        == NRows(answered)
    IN  [j \in 1..n_resp |->
            LET c == CountRows(answered, LAMBDA r : r.focus[raw_col] = response_order[j])
            IN  IF c > 0 THEN Pct(c, n) ELSE Zero]

\* ILT_data / SH_data: one reindexed distribution per focus topic
FocusData(b, aff) ==
    [i \in 1..n_focus |-> FocusDist(ByAffiliation(DropNaFocus(b), aff), focus_keys[i])]

\* ------------------------------------------------------- agreement table
\* round(x, 1) of x = n / d, in tenths: the nearest tenth, a tie to the even one
RoundTenths(n, d) ==
    LET q == (10 * n) \div d
        r == (10 * n) % d
    IN  IF 2 * r > d \/ (2 * r = d /\ q % 2 = 1) THEN q + 1 ELSE q

\* a variant of Proportions that divides by the group's checked selections
ProportionsOfChecked(b, headers) ==
    LET counts == CheckedCounts(b, headers)
        total  == SeqSum(counts)
    IN  [k \in 1..Len(counts) |->
            IF total > 0 THEN RoundTenths(100 * counts[k], total) ELSE 0]

\* sh_proportions / ilt_proportions, in tenths of a percent, one per purpose
\* column: (counts / total * 100).round(1), or 0.0 for a group without rows
Proportions(b, headers) ==
    LET counts == CheckedCounts(b, headers)
        total  == NRows(b)
    IN  [k \in 1..Len(counts) |->
            IF total > 0 THEN RoundTenths(100 * counts[k], total) ELSE 0]

\* agreement_df: one row per purpose column, the values in tenths
AgreementTable(b, headers) ==
    LET sh  == Proportions(ByAffiliation(b, "SH"), headers)
        ilt == Proportions(ByAffiliation(b, "ILT"), headers)
    IN  [k \in 1..Len(purpose_columns(headers)) |->
            [label      |-> cleaned_purpose_cols(headers)[k],
             sh_prop    |-> sh[k],
             ilt_prop   |-> ilt[k],
             difference |-> sh[k] - ilt[k]]]

\* get_color_gradient: the colour between start_rgb and end_rgb at the place
\* of value between min_val and max_val, clamped; int() cuts each channel
get_color_gradient(value, min_val, max_val, start_rgb, end_rgb) ==
    LET span == IF min_val = max_val THEN 2 ELSE max_val - min_val
        at   == IF min_val = max_val THEN 1
                ELSE IF value < min_val THEN 0
                ELSE IF value > max_val THEN span
                ELSE value - min_val
    IN  [c \in 1..3 |-> start_rgb[c] + ((end_rgb[c] - start_rgb[c]) * at) \div span]

\* the neutral light grey #F0F0F0
NeutralGrey == <<240, 240, 240>>
blue_start_rgb == <<220, 230, 255>>
blue_end_rgb == <<70, 130, 180>>
red_start_rgb == <<255, 230, 220>>
red_end_rgb == <<200, 80, 0>>

\* a variant of style_difference_cell whose blue zone starts at the threshold
StyleThresholdInclusive(val) ==
    IF val >= 20
         THEN [bg   |-> get_color_gradient(val, 20, 250, blue_start_rgb, blue_end_rgb),
               text |-> IF val > 100 THEN "white" ELSE "black"]
    ELSE IF val < -20
         THEN [bg   |-> get_color_gradient(val, -400, -20, red_end_rgb, red_start_rgb),
               text |-> IF val < -150 THEN "white" ELSE "black"]
    ELSE [bg |-> NeutralGrey, text |-> "black"]

\* style_difference_cell, the value in tenths: neutral_threshold 2.0 is 20;
\* no Difference of the table is missing (the lookups of lines 295-296 always
\* find the column), so the branch for a missing value is never taken
style_difference_cell(val) ==
    IF val > 20
         THEN [bg   |-> get_color_gradient(val, 20, 250, blue_start_rgb, blue_end_rgb),
               text |-> IF val > 100 THEN "white" ELSE "black"]
    ELSE IF val < -20
         THEN [bg   |-> get_color_gradient(val, -400, -20, red_end_rgb, red_start_rgb),
               text |-> IF val < -150 THEN "white" ELSE "black"]
    ELSE [bg |-> NeutralGrey, text |-> "black"]

\* styled_agreement_df: the style of the Difference cell of every table row
StyledDifference(table) ==
    [k \in 1..Len(table) |-> style_difference_cell(table[k].difference)]

\* ----------------------------------------------------------------- trends
\* a Likert cell: a text, a number (a column read as numeric) or missing
Text(s) == [t |-> "text", s |-> s, n |-> 0]
Num(n) == [t |-> "num", s |-> "", n |-> n]
Missing == [t |-> "nan", s |-> "", n |-> 0]

LikertTexts ==
    [x \in {"Strongly disagree", "Disagree", "Neutral", "Somewhat agree",
            "Slightly agree", "Agree", "Strongly agree"} |->
        CASE x = "Strongly disagree" -> 1
          [] x = "Disagree"          -> 2
          [] x = "Neutral"           -> 3
          [] x = "Somewhat agree"    -> 3
          [] x = "Slightly agree"    -> 3
          [] x = "Agree"             -> 4
          [] x = "Strongly agree"    -> 5]

\* a missing score
NoScore == 0

\* likert_map of the theory-of-action trend: the seven texts only
TheoryScore(cell) ==
    IF cell.t = "text" /\ cell.s \in DOMAIN LikertTexts THEN LikertTexts[cell.s]
    ELSE NoScore

\* likert_map of the accountability trend: the seven texts and the numbers 1..5
AccountabilityScore(cell) ==
    IF cell.t = "text" /\ cell.s \in DOMAIN LikertTexts THEN LikertTexts[cell.s]
    ELSE IF cell.t = "num" /\ cell.n \in 1..5 THEN cell.n
    ELSE NoScore

\* pd.to_datetime(errors="coerce") followed by .dt.date: the calendar day of a
\* date text as a day number, NaT (0) for a text that is no date
NaT == 0
DateTable ==
    [x \in {"2024-01-10", "2024-01-10 09:15", "2024-01-10 14:30", "2024-01-11"} |->
        CASE x = "2024-01-10"       -> 1
          [] x = "2024-01-10 09:15" -> 1
          [] x = "2024-01-10 14:30" -> 1
          [] x = "2024-01-11"       -> 2]
DateOnly(raw) == IF raw \in DOMAIN DateTable THEN DateTable[raw] ELSE NaT
Days == {DateTable[x] : x \in DOMAIN DateTable}
DaySeq == [d \in 1..Cardinality(Days) |-> d]

\* the sum of Score(r) over the rows of b
RECURSIVE ScoreSum(_, _)
ScoreSum(b, which) ==
    IF DOMAIN b = {} THEN 0
    ELSE LET r == CHOOSE x \in DOMAIN b : TRUE
             v == IF which = "theory" THEN TheoryScore(r.theory)
                  ELSE AccountabilityScore(r.account)
         IN  v * b[r] + ScoreSum([x \in DOMAIN b \ {r} |-> b[x]], which)

\* a variant of MeanByDay that adds the scores of a day up
TotalByDay(b, which) ==
    LET valid == Filter(b, LAMBDA r :
                     /\ DateOnly(r.date) # NaT
                     /\ (IF which = "theory" THEN TheoryScore(r.theory)
                         ELSE AccountabilityScore(r.account)) # NoScore)
        on(d) == Filter(valid, LAMBDA r : DateOnly(r.date) = d)
    IN  [k \in 1..Len(SelectSeq(DaySeq, LAMBDA d : NRows(on(d)) > 0)) |->
            LET d == SelectSeq(DaySeq, LAMBDA e : NRows(on(e)) > 0)[k]
            IN  [date |-> d, num |-> ScoreSum(on(d), which), den |-> 1]]

\* groupby(date).mean() over the rows of b with a date and a score: one point
\* per day that has a row, ordered by day
MeanByDay(b, which) ==
    LET valid == Filter(b, LAMBDA r :
                     /\ DateOnly(r.date) # NaT
                     /\ (IF which = "theory" THEN TheoryScore(r.theory)
                         ELSE AccountabilityScore(r.account)) # NoScore)
        on(d) == Filter(valid, LAMBDA r : DateOnly(r.date) = d)
    IN  [k \in 1..Len(SelectSeq(DaySeq, LAMBDA d : NRows(on(d)) > 0)) |->
            LET d == SelectSeq(DaySeq, LAMBDA e : NRows(on(e)) > 0)[k]
            IN  [date |-> d, num |-> ScoreSum(on(d), which), den |-> NRows(on(d))]]

\* trend_all of the theory-of-action chart
TrendAll(b) == MeanByDay(b, "theory")

\* avg_scores of the accountability chart: groupby([DateOnly, Affiliation])
\* .mean().unstack(): one row per day that has a point of either group; a
\* group without a point that day has den = 0 (NaN) there
AvgScores(b) ==
    LET known == Filter(b, LAMBDA r : r.Affiliation # NaN)
        sh    == MeanByDay(ByAffiliation(known, "SH"), "account")
        ilt   == MeanByDay(ByAffiliation(known, "ILT"), "account")
        at(series, d) ==
            IF \E k \in 1..Len(series) : series[k].date = d
            THEN LET k == CHOOSE i \in 1..Len(series) : series[i].date = d
                 IN  Frac(series[k].num, series[k].den)
            ELSE Frac(0, 0)
        days  == SelectSeq(DaySeq, LAMBDA d : at(sh, d).den > 0 \/ at(ilt, d).den > 0)
    IN  [k \in 1..Len(days) |-> [date |-> days[k], SH |-> at(sh, days[k]), ILT |-> at(ilt, days[k])]]

\* ------------------------------------------------- all-schools donuts
\* purpose_counts_all: the counts over all rows, descending, zeros removed
PurposeCountsAll(b, headers) ==
    LET counts == CheckedCounts(b, headers)
        labels == cleaned_purpose_cols(headers)
        sorted == SortBy([k \in 1..Len(counts) |->
                            Entry(labels[k], LabelRank(labels[k]), Frac(counts[k], 1))],
                         "value")
    IN  SelectSeq(sorted, LAMBDA e : e.num > 0)

\* ------------------------------------------------------------ school list
\* sorted(df["School Name"].dropna().unique()); the order of the names the
\* model's files use is that of SchoolOrder
SchoolOrder == << "Lakeview", "School B", "School E", "School F" >>

SchoolList(b) ==
    SelectSeq(SchoolOrder, LAMBDA n : \E r \in DOMAIN b : r.school = n)

\* ------------------------------------------------------------------ donuts
\* purpose_color_map: the keys are the short labels of label_mapping
purpose_color_map ==
    [x \in {label_mapping[k].short : k \in 1..Len(label_mapping)} |->
        CASE x = label_mapping[1].short -> "#4E79A7"
          [] x = label_mapping[2].short -> "#F28E2B"
          [] x = label_mapping[3].short -> "#E15759"
          [] x = label_mapping[4].short -> "#76B7B2"
          [] x = label_mapping[5].short -> "#59A14F"
          [] x = label_mapping[6].short -> "#EDC948"
          [] x = label_mapping[7].short -> "#B07AA1"]

talk_color_map ==
    [x \in {"No one person spoke significantly more", "Other Support Hub members",
            "Other ILT members", "The executive director"} |->
        CASE x = "No one person spoke significantly more" -> "#4E79A7"
          [] x = "Other Support Hub members"              -> "#F28E2B"
          [] x = "Other ILT members"                      -> "#59A14F"
          [] x = "The executive director"                 -> "#E15759"]

\* the colours of the maps, in the order of the dicts
Palette == << "#4E79A7", "#F28E2B", "#E15759", "#76B7B2", "#59A14F", "#EDC948", "#B07AA1" >>

\* a variant of WedgeColors that gives the k-th wedge the k-th colour
WedgeColorsByPlace(labels, color_map) ==
    [k \in 1..Len(labels) |-> IF k <= Len(Palette) THEN Palette[k] ELSE "#cccccc"]

\* [color_map.get(label, "#cccccc") for label in labels]
WedgeColors(labels, color_map) ==
    [k \in 1..Len(labels) |->
        IF labels[k] \in DOMAIN color_map THEN color_map[labels[k]] ELSE "#cccccc"]

\* a variant of custom_autopct that prints a wedge of exactly 1%
AutopctFromOne(pct) ==
    IF pct.num >= pct.den
    THEN [shown |-> TRUE, tenths |-> RoundTenths(pct.num, pct.den)]
    ELSE [shown |-> FALSE, tenths |-> 0]

\* custom_autopct: the text "<pct to one decimal>%" when pct > 1, "" otherwise
custom_autopct(pct) ==
    IF pct.num > pct.den
    THEN [shown |-> TRUE, tenths |-> RoundTenths(pct.num, pct.den)]
    ELSE [shown |-> FALSE, tenths |-> 0]

\* plot_donut_fixed_colors: the wedges in descending order of value, each with
\* the colour of its label and the text of ax.pie's autopct, which is called
\* with 100 * value / sum of the values
plot_donut_fixed_colors(percent_series, color_map) ==
    LET sorted == SortBy(percent_series, "value")
        labels == [k \in 1..Len(sorted) |-> sorted[k].label]
        colors == WedgeColors(labels, color_map)
        total  == Reduced(SeriesSum(sorted))
    IN  [k \in 1..Len(sorted) |->
            [label |-> labels[k],
             color |-> colors[k],
             text  |-> custom_autopct(
                           Reduced(Frac(100 * sorted[k].num * total.den,
                                        sorted[k].den * total.num)))]]

\* ------------------------------------------------ the focus-area bar charts
\* bar_colors: one colour per response level, in the order of response_order
bar_colors == << "#2F6130", "#59A14F", "#85BC74", "#A8D09C" >>

\* bar_width = 0.35
bar_width == Frac(35, 100)

\* the float arithmetic of the positions and of the running bottoms, exact
Plus(a, b) ==
    IF b.num = 0 THEN a
    ELSE IF a.num = 0 THEN b
    ELSE Reduced(Frac(a.num * b.den + b.num * a.den, a.den * b.den))
Minus(a, b) == Plus(a, Frac(0 - b.num, b.den))
Half(a) == Reduced(Frac(a.num, 2 * a.den))

\* x = np.arange(n_focus): the tick position of each topic
xticks == [i \in 1..n_focus |-> Frac(i - 1, 1)]

\* x - bar_width / 2 and x + bar_width / 2
XMinusHalfWidth == [i \in 1..n_focus |-> Minus(xticks[i], Half(bar_width))]
XPlusHalfWidth == [i \in 1..n_focus |-> Plus(xticks[i], Half(bar_width))]

\* np.zeros(n_focus)
Zeros == [i \in 1..n_focus |-> Zero]

\* ax.bar(xs, vals, width, bottom=bottom, color=color): one rectangle per
\* topic, centred on xs[i] (matplotlib's default align="center")
ax_bar(xs, vals, width, bottom, color) ==
    [i \in 1..Len(xs) |->
        [x |-> xs[i], height |-> vals[i], width |-> width,
         bottom |-> bottom[i], color |-> color]]

\* the loop `for j in range(n_resp)` from response j on: the ILT rectangles
\* and the SH rectangles of response j, then the two bottoms grow
RECURSIVE StackFrom(_, _, _, _, _, _, _)
StackFrom(j, ilt_data, sh_data, ilt_x, sh_x, bottom_ilt, bottom_sh) ==
    IF j > n_resp THEN <<>>
    ELSE LET ilt_vals == [i \in 1..n_focus |-> ilt_data[i][j]]
             sh_vals  == [i \in 1..n_focus |-> sh_data[i][j]]
         IN  ax_bar(ilt_x, ilt_vals, bar_width, bottom_ilt, bar_colors[j])
             \o ax_bar(sh_x, sh_vals, bar_width, bottom_sh, bar_colors[j])
             \o StackFrom(j + 1, ilt_data, sh_data, ilt_x, sh_x,
                    [i \in 1..n_focus |-> Plus(bottom_ilt[i], ilt_vals[i])],
                    [i \in 1..n_focus |-> Plus(bottom_sh[i], sh_vals[i])])

\* the loop of ax.text calls: for each topic the text "ILT" at ilt_x[i] and
\* the text "SH" at sh_x[i], both at y = -5
LabelsBeneath(ilt_x, sh_x) ==
    [k \in 1..(2 * n_focus) |->
        LET i == (k + 1) \div 2
        IN  IF k % 2 = 1 THEN [x |-> ilt_x[i], y |-> -5, text |-> "ILT"]
            ELSE [x |-> sh_x[i], y |-> -5, text |-> "SH"]]

\* reversed(s)
Reversed(s) == [k \in 1..Len(s) |-> s[Len(s) + 1 - k]]

\* ax.legend(legend_handles, reversed(response_order)): the k-th handle has
\* the colour bar_colors[k] for k in reversed(range(n_resp))
Legend ==
    [k \in 1..n_resp |->
        [color |-> Reversed(bar_colors)[k], label |-> Reversed(response_order)[k]]]

\* lines 501-570: the overall chart; ILT at x + bar_width / 2, SH at
\* x - bar_width / 2, in the bars and in the texts beneath them
overall_focus_chart(ilt_data, sh_data) ==
    [xticks |-> xticks,
     bars   |-> StackFrom(1, ilt_data, sh_data, XPlusHalfWidth, XMinusHalfWidth,
                          Zeros, Zeros),
     texts  |-> LabelsBeneath(XPlusHalfWidth, XMinusHalfWidth),
     legend |-> Legend]

\* a variant of school_focus_chart whose texts are at the places of the
\* overall chart
SchoolChartTextsAsOverall(ilt_data, sh_data) ==
    [xticks |-> xticks,
     bars   |-> StackFrom(1, ilt_data, sh_data, XMinusHalfWidth, XPlusHalfWidth,
                          Zeros, Zeros),
     texts  |-> LabelsBeneath(XPlusHalfWidth, XMinusHalfWidth),
     legend |-> Legend]

\* lines 921-987: the chart of the selected school; ILT at x - bar_width / 2,
\* SH at x + bar_width / 2, in the bars and in the texts beneath them
school_focus_chart(ilt_data, sh_data) ==
    [xticks |-> xticks,
     bars   |-> StackFrom(1, ilt_data, sh_data, XMinusHalfWidth, XPlusHalfWidth,
                          Zeros, Zeros),
     texts  |-> LabelsBeneath(XMinusHalfWidth, XPlusHalfWidth),
     legend |-> Legend]

\* ================================================================== INPUTS
\* The uploaded files the model is run on.  A file is the set of the named
\* columns it has, the sequence of its remaining headers, and its rows.
PurposeHeader(long) == <<PurposePrefix, " (choice=">> \o long \o <<")">>

FileHeaders ==
    << PurposeHeader(<<"Provide feedback to individual teachers">>),
       PurposeHeader(<<"Monitor progress on this school", "s theory of action">>),
       <<"Notes on: ", "Provide feedback to individual teachers">> >>

AllFocus(answer) == [k \in {focus_keys[i] : i \in 1..n_focus} |-> answer]

DefaultRow ==
    [aff     |-> <<"MNPS Support Hub">>,
     school  |-> "Cane Ridge",
     checks  |-> <<"Checked", "Unchecked", "Checked">>,
     talk    |-> "The executive director(s)",
     focus   |-> AllFocus("Some focus"),
     date    |-> "2024-01-10",
     theory  |-> Text("Agree"),
     account |-> Text("Agree")]

AffCells == {<<"MNPS Support Hub">>, <<"This school's ILT">>}
\* a row of a respondent who is in neither group
OtherRow == [DefaultRow EXCEPT !.aff = <<"Central office">>]
Schools == {"Cane Ridge", "Lakeview"}
Flags == {"Checked", "Unchecked"}

\* rows that differ in affiliation, school and purpose flags
PurposeRows ==
    {[DefaultRow EXCEPT !.aff = a, !.school = sc, !.checks = <<c1, c2, "Checked">>] :
        a \in AffCells, sc \in Schools, c1 \in Flags, c2 \in Flags}
        \cup {OtherRow}

\* rows that differ in affiliation, school and talk-most answer
TalkRows ==
    {[DefaultRow EXCEPT !.aff = a, !.school = sc, !.talk = t] :
        a \in AffCells, sc \in Schools,
        t \in {"The executive director(s)",
               "Other ILT members (not the executive principal)",
               "The executive director"}}
        \cup {OtherRow}

\* rows that differ in affiliation, school and the answers to two focus topics
FocusRows ==
    {[DefaultRow EXCEPT !.aff = a, !.school = sc,
                        !.focus[focus_keys[1]] = f1, !.focus[focus_keys[2]] = f2] :
        a \in AffCells, sc \in Schools,
        f1 \in {"Not a focus", "Some focus", "Unsure"},
        f2 \in {NaN, "Not a focus"}}
        \cup {OtherRow}

\* rows that differ in the text of the affiliation cell
AffTexts ==
    SeqsUpTo({" ", "MNPS Support Hub", "mnps support hub"}, MaxAffLen)
        \cup {<<"This school's ILT">>, <<" ", "This school's ILT", " ">>}

AffRows == {[DefaultRow EXCEPT !.aff = a] : a \in AffTexts}

File(columns, rows) ==
    [present |-> TRUE, cols |-> columns, headers |-> FileHeaders, rows |-> rows]

NoFile == [present |-> FALSE, cols |-> {}, headers |-> <<>>, rows |-> EmptyBag]

\* rows that differ in affiliation, date and the text of the two Likert
\* answers; the dates of a file are all written as a day, or are no date
TrendRows ==
    {[DefaultRow EXCEPT !.aff = a, !.date = d, !.theory = Text(t), !.account = Text(t)] :
        a \in AffCells, d \in {"2024-01-10", "2024-01-11", "n/a"},
        t \in {"Agree", "Strongly agree", "agree"}}
        \cup {OtherRow}

\* rows of a file whose Likert columns are coded as numbers
NumericRows ==
    {[DefaultRow EXCEPT !.aff = a, !.date = d, !.theory = Num(n), !.account = Num(n)] :
        a \in AffCells, d \in {"2024-01-10", "2024-01-11"}, n \in {4, 5, 6}}

\* rows of a file whose dates are all written with a time of day
TimestampRows ==
    {[DefaultRow EXCEPT !.date = d, !.theory = Text(t), !.account = Text(t)] :
        d \in {"2024-01-10 09:15", "2024-01-10 14:30"},
        t \in {"Agree", "Strongly agree"}}

\* rows that differ in the Likert answer: every text of the scale, the two
\* synonyms, a text off the scale, every number of the scale, numbers off the
\* scale, and no answer
LikertCells ==
    {Text(t) : t \in DOMAIN LikertTexts \cup {"strongly agree", "4", "N/A"}}
        \cup {Num(n) : n \in 0..6} \cup {Missing}

LikertRows == {[DefaultRow EXCEPT !.theory = c, !.account = c] : c \in LikertCells}

\* rows that differ in the school name: names the substitution renames, a
\* name that is the result of a substitution, another name, no name
SchoolRows ==
    {[DefaultRow EXCEPT !.school = sc] :
        sc \in {"Cane Ridge", "Hillsboro", "Maplewood", "School B", "Lakeview", NaN}}

\* files of a larger survey: k of n records of each group checked the first
\* purpose
Shares == {<<0, 1>>, <<1, 48>>, <<1, 50>>, <<1, 52>>, <<4, 10>>, <<7, 10>>}

SurveyGroup(a, share) ==
    LET yes  == [DefaultRow EXCEPT !.aff = a, !.checks = <<"Checked", "Unchecked", "Checked">>]
        no   == [DefaultRow EXCEPT !.aff = a, !.checks = <<"Unchecked", "Unchecked", "Checked">>]
        n(r) == IF r = yes THEN share[1] ELSE share[2] - share[1]
    IN  [r \in {x \in {yes, no} : n(x) > 0} |-> n(r)]

SurveyFiles ==
    {File(NamedColumns, SurveyGroup(<<"MNPS Support Hub">>, s)
                            (+) SurveyGroup(<<"This school's ILT">>, t)) :
        s \in Shares, t \in Shares}

\* files that differ in the header of the first purpose column: each long
\* phrase of the survey, each short label (a file saved with cleaned
\* headers), and a purpose the mapping does not know
HeaderTexts ==
    {label_mapping[k].long : k \in 1..Len(label_mapping)}
        \cup {label_mapping[k].short : k \in 1..Len(label_mapping)}
        \cup {<<"Other">>}

HeaderFiles ==
    {[present |-> TRUE, cols |-> NamedColumns,
      headers |-> <<PurposeHeader(t), <<"Comments">>, FileHeaders[3]>>,
      rows    |-> SetToBag({DefaultRow})] : t \in HeaderTexts}

\* files of a larger survey whose SH records checked one purpose each: k the
\* first, the other n - k the second
WedgeShares == {<<1, 99>>, <<1, 100>>, <<1, 101>>, <<1, 200>>}

WedgeGroup(share) ==
    LET one  == [DefaultRow EXCEPT !.checks = <<"Checked", "Unchecked", "Checked">>]
        two  == [DefaultRow EXCEPT !.checks = <<"Unchecked", "Checked", "Checked">>]
        n(r) == IF r = one THEN share[1] ELSE share[2] - share[1]
    IN  [r \in {one, two} |-> n(r)]

WedgeFiles == {File(NamedColumns, WedgeGroup(s)) : s \in WedgeShares}

\* files that lack one named column, or have only missing school names
ColumnFiles ==
    {File(NamedColumns \ {c}, SetToBag({DefaultRow})) : c \in NamedColumns}
        \cup {File(NamedColumns, SetToBag({[DefaultRow EXCEPT !.school = NaN]}))}

Files ==
    {NoFile}
        \cup {File(NamedColumns, b) : b \in BagsUpTo(PurposeRows, MaxRows)}
        \cup {File(NamedColumns, b) : b \in BagsUpTo(TalkRows, MaxRows)}
        \cup {File(NamedColumns, b) : b \in BagsUpTo(FocusRows, MaxFocusRows)}
        \cup {File(NamedColumns, SetToBag({r})) : r \in AffRows}
        \cup SurveyFiles
        \cup WedgeFiles
        \cup HeaderFiles
        \cup {File(NamedColumns, b) : b \in BagsUpTo(SchoolRows, MaxSchoolRows)}
        \cup {File(NamedColumns, b) : b \in BagsUpTo(TrendRows, MaxTrendRows)}
        \cup {File(NamedColumns, b) : b \in BagsUpTo(NumericRows, MaxTrendRows)}
        \cup {File(NamedColumns, b) : b \in BagsUpTo(TimestampRows, MaxTrendRows)}
        \cup {File(NamedColumns, SetToBag({r})) : r \in LikertRows}
        \cup ColumnFiles

\* =================================================================== STATE
VARIABLES
    file,                    \* uploaded_file
    pc,                      \* the section the run is about to execute
    rendered,                \* what the run has put on the page, in order
    df,                      \* the table after data preparation
    support_percent, ilt_percent,
    support_talk_percent, ilt_talk_percent,
    agreement_df,
    SH_data, ILT_data,
    trend_all, purpose_counts_all, talk_counts_all, avg_scores,
    school_list, selected_school, school_df,
    school_support_percent, school_ilt_percent,
    school_support_talk, school_ilt_talk,
    SH_school_data, ILT_school_data

overallVars == <<support_percent, ilt_percent, support_talk_percent, ilt_talk_percent,
             agreement_df, SH_data, ILT_data, trend_all, purpose_counts_all,
             talk_counts_all, avg_scores>>
schoolVars == <<school_list, selected_school, school_df, school_support_percent,
            school_ilt_percent, school_support_talk, school_ilt_talk,
            SH_school_data, ILT_school_data>>
vars == <<file, pc, rendered, df, overallVars, schoolVars>>

\* one thing put on the page: a header, a chart, a table, a message, a widget
Item(section, slot, kind) == [section |-> section, slot |-> slot, kind |-> kind]

\* the values of every variable of the script before the run assigns it
Fresh ==
    /\ pc = "start"
    /\ rendered = <<>>
    /\ df = EmptyBag
    /\ support_percent = <<>> /\ ilt_percent = <<>>
    /\ support_talk_percent = <<>> /\ ilt_talk_percent = <<>>
    /\ agreement_df = <<>>
    /\ SH_data = <<>> /\ ILT_data = <<>>
    /\ trend_all = <<>> /\ purpose_counts_all = <<>> /\ talk_counts_all = <<>>
    /\ avg_scores = <<>>
    /\ school_list = <<>> /\ selected_school = NaN /\ school_df = EmptyBag
    /\ school_support_percent = <<>> /\ school_ilt_percent = <<>>
    /\ school_support_talk = <<>> /\ school_ilt_talk = <<>>
    /\ SH_school_data = <<>> /\ ILT_school_data = <<>>

Init == file \in Files /\ Fresh

\* ================================================================= ACTIONS
\* the row of df made from a row of the file by the data preparation
PrepareRow(r) ==
    [aff         |-> Strip(AsStr(r.aff)),
     Affiliation |-> Affiliation(r.aff),
     school      |-> ReplaceSchool(r.school),
     checks      |-> r.checks,
     talk        |-> r.talk,
     TalkLabel   |-> TalkLabel(r.talk),
     focus       |-> r.focus,
     date        |-> r.date,
     theory      |-> r.theory,
     account     |-> r.account]

\* the columns the data preparation indexes without a check
LoadColumns == {"School Name", "Your affiliation:", talk_col}

\* st.title
Title == Item("page", "", "title")

\* a variant of DonutOrInfo without the test for an empty Series
DonutAlways(section, slot, series) == Item(section, slot, "donut")

\* the donut of one group, or the message shown when its Series is empty
DonutOrInfo(section, slot, series) ==
    Item(section, slot, IF series # <<>> THEN "donut" ELSE "info")

\* a variant of AwaitUpload without st.stop(): the script runs on
AwaitUploadNoStop ==
    /\ pc = "start"
    /\ ~file.present
    /\ rendered' = <<Title, Item("upload", "", "prompt")>>
    /\ pc' = "purpose"
    /\ UNCHANGED <<file, df, overallVars, schoolVars>>

\* lines 42-45: no file has been uploaded: the prompt, then st.stop()
AwaitUpload ==
    /\ pc = "start"
    /\ ~file.present
    /\ rendered' = <<Title, Item("upload", "", "prompt")>>
    /\ pc' = "stopped"
    /\ UNCHANGED <<file, df, overallVars, schoolVars>>

\* lines 52-83: read the file, rename the schools, map affiliation and talk
LoadData ==
    /\ pc = "start"
    /\ file.present
    /\ LoadColumns \subseteq file.cols
    /\ df' = MapBag(file.rows, PrepareRow)
    /\ rendered' = <<Title>>
    /\ pc' = "purpose"
    /\ UNCHANGED <<file, overallVars, schoolVars>>

\* lines 60, 63, 83: df[<column>] of a column the file does not have raises
\* KeyError, which nothing catches: the run ends in the exception
LoadKeyError ==
    /\ pc = "start"
    /\ file.present
    /\ ~(LoadColumns \subseteq file.cols)
    /\ rendered' = <<Title, Item("page", "", "exception")>>
    /\ pc' = "crashed"
    /\ UNCHANGED <<file, df, overallVars, schoolVars>>

\* lines 184-266: the overall purpose donuts; the talk-most percentages are
\* computed here and drawn later
OverallPurpose ==
    /\ pc = "purpose"
    /\ support_percent' = PurposePercent(ByAffiliation(df, "SH"), file.headers)
    /\ ilt_percent' = PurposePercent(ByAffiliation(df, "ILT"), file.headers)
    /\ support_talk_percent' = get_talk_percentages(ByAffiliation(df, "SH"))
    /\ ilt_talk_percent' = get_talk_percentages(ByAffiliation(df, "ILT"))
    /\ rendered' = rendered \o
          << Item("overall_purpose", "", "header"),
             DonutOrInfo("overall_purpose", "SH", support_percent'),
             DonutOrInfo("overall_purpose", "ILT", ilt_percent') >>
    /\ pc' = "table"
    /\ UNCHANGED <<file, df, agreement_df, SH_data, ILT_data, trend_all,
                   purpose_counts_all, talk_counts_all, avg_scores, schoolVars>>

\* lines 273-397: the agreement proportion table
AgreementSection ==
    /\ pc = "table"
    /\ agreement_df' = AgreementTable(df, file.headers)
    /\ rendered' = rendered \o
          << Item("agreement_table", "", "header"),
             Item("agreement_table", "", "table") >>
    /\ pc' = "talk"
    /\ UNCHANGED <<file, df, support_percent, ilt_percent, support_talk_percent,
                   ilt_talk_percent, SH_data, ILT_data, trend_all,
                   purpose_counts_all, talk_counts_all, avg_scores, schoolVars>>

\* a variant of OverallTalk after which the focus-area section is left out
OverallTalkSkipsFocus ==
    /\ pc = "talk"
    /\ rendered' = rendered \o
          << Item("overall_talk", "", "header"),
             DonutOrInfo("overall_talk", "SH", support_talk_percent),
             DonutOrInfo("overall_talk", "ILT", ilt_talk_percent) >>
    /\ pc' = "theory"
    /\ UNCHANGED <<file, df, overallVars, schoolVars>>

\* lines 404-428: the overall talk-most donuts
OverallTalk ==
    /\ pc = "talk"
    /\ rendered' = rendered \o
          << Item("overall_talk", "", "header"),
             DonutOrInfo("overall_talk", "SH", support_talk_percent),
             DonutOrInfo("overall_talk", "ILT", ilt_talk_percent) >>
    /\ pc' = "focus"
    /\ UNCHANGED <<file, df, overallVars, schoolVars>>

\* the focus columns the file has
HasFocusColumns == \A i \in 1..n_focus : focus_keys[i] \in file.cols

\* lines 463-570: the overall focus-area bars
OverallFocus ==
    /\ pc = "focus"
    /\ HasFocusColumns
    /\ SH_data' = FocusData(df, "SH")
    /\ ILT_data' = FocusData(df, "ILT")
    /\ rendered' = rendered \o
          << Item("overall_focus", "", "header"),
             Item("overall_focus", "", "bars") >>
    /\ pc' = "theory"
    /\ UNCHANGED <<file, df, support_percent, ilt_percent, support_talk_percent,
                   ilt_talk_percent, agreement_df, trend_all, purpose_counts_all,
                   talk_counts_all, avg_scores, schoolVars>>

\* line 473: dropna(subset=...) naming a column the file does not have raises
\* KeyError after the section's header is on the page
FocusKeyError ==
    /\ pc = "focus"
    /\ ~HasFocusColumns
    /\ rendered' = rendered \o
          << Item("overall_focus", "", "header"), Item("page", "", "exception") >>
    /\ pc' = "crashed"
    /\ UNCHANGED <<file, df, overallVars, schoolVars>>

\* lines 578-633: the theory-of-action trend of all schools
TheoryTrend ==
    /\ pc = "theory"
    /\ IF {"Date", theory_col} \subseteq file.cols
       THEN /\ trend_all' = TrendAll(df)
            /\ rendered' = rendered \o
                  << Item("theory_trend", "", "header"),
                     Item("theory_trend", "all",
                          IF trend_all' = <<>> THEN "info" ELSE "line") >>
       ELSE /\ trend_all' = trend_all
            /\ rendered' = rendered \o
                  << Item("theory_trend", "", "header"),
                     Item("theory_trend", "all", "info") >>
    /\ pc' = "purpose_all"
    /\ UNCHANGED <<file, df, support_percent, ilt_percent, support_talk_percent,
                   ilt_talk_percent, agreement_df, SH_data, ILT_data,
                   purpose_counts_all, talk_counts_all, avg_scores, schoolVars>>

\* lines 641-663: the purpose donut of all schools and affiliations
AllPurpose ==
    /\ pc = "purpose_all"
    /\ purpose_counts_all' = PurposeCountsAll(df, file.headers)
    /\ rendered' = rendered \o
          << Item("all_purpose", "", "header"),
             DonutOrInfo("all_purpose", "all", purpose_counts_all') >>
    /\ pc' = "talk_all"
    /\ UNCHANGED <<file, df, support_percent, ilt_percent, support_talk_percent,
                   ilt_talk_percent, agreement_df, SH_data, ILT_data, trend_all,
                   talk_counts_all, avg_scores, schoolVars>>

\* lines 671-689: the talk-most donut of all schools and affiliations
AllTalk ==
    /\ pc = "talk_all"
    /\ talk_counts_all' = TalkValueCounts(df)
    /\ rendered' = rendered \o
          << Item("all_talk", "", "header"),
             DonutOrInfo("all_talk", "all", talk_counts_all') >>
    /\ pc' = "accountability"
    /\ UNCHANGED <<file, df, support_percent, ilt_percent, support_talk_percent,
                   ilt_talk_percent, agreement_df, SH_data, ILT_data, trend_all,
                   purpose_counts_all, avg_scores, schoolVars>>

\* lines 697-761: the accountability trend by affiliation
AccountabilityTrend ==
    /\ pc = "accountability"
    /\ IF {"Date", accountability_col} \subseteq file.cols
       THEN /\ avg_scores' = AvgScores(df)
            /\ rendered' = rendered \o
                  << Item("accountability_trend", "", "header"),
                     Item("accountability_trend", "by_affiliation",
                          IF avg_scores' = <<>> THEN "info" ELSE "line") >>
       ELSE /\ avg_scores' = avg_scores
            /\ rendered' = rendered \o
                  << Item("accountability_trend", "", "header"),
                     Item("accountability_trend", "by_affiliation", "warning") >>
    /\ pc' = "school"
    /\ UNCHANGED <<file, df, support_percent, ilt_percent, support_talk_percent,
                   ilt_talk_percent, agreement_df, SH_data, ILT_data, trend_all,
                   purpose_counts_all, talk_counts_all, schoolVars>>

\* lines 768-785: the school selector.  The value of the select box is the
\* user's choice among the listed schools.
SchoolSelector ==
    /\ pc = "school"
    /\ IF "School Name" \notin file.cols
       THEN /\ rendered' = rendered \o
                  << Item("school", "", "header"), Item("school", "", "error") >>
            /\ pc' = "stopped"
            /\ UNCHANGED schoolVars
       ELSE IF SchoolList(df) = <<>>
       THEN /\ rendered' = rendered \o
                  << Item("school", "", "header"), Item("school", "", "warning") >>
            /\ school_list' = <<>>
            /\ pc' = "stopped"
            /\ UNCHANGED <<selected_school, school_df, school_support_percent,
                           school_ilt_percent, school_support_talk, school_ilt_talk,
                           SH_school_data, ILT_school_data>>
       ELSE \E choice \in 1..Len(SchoolList(df)) :
            /\ school_list' = SchoolList(df)
            /\ selected_school' = school_list'[choice]
            /\ school_df' = Filter(df, LAMBDA r : r.school = selected_school')
            /\ rendered' = rendered \o
                  << Item("school", "", "header"), Item("school", "", "selectbox") >>
            /\ pc' = "school_purpose"
            /\ UNCHANGED <<school_support_percent, school_ilt_percent,
                           school_support_talk, school_ilt_talk,
                           SH_school_data, ILT_school_data>>
    /\ UNCHANGED <<file, df, overallVars>>

\* lines 792-842: the purpose donuts of the selected school
SchoolPurpose ==
    /\ pc = "school_purpose"
    /\ school_support_percent' =
          PurposePercent(ByAffiliation(school_df, "SH"), file.headers)
    /\ school_ilt_percent' =
          PurposePercent(ByAffiliation(school_df, "ILT"), file.headers)
    /\ rendered' = rendered \o
          << Item("school_purpose", "", "header"),
             DonutOrInfo("school_purpose", "SH", school_support_percent'),
             DonutOrInfo("school_purpose", "ILT", school_ilt_percent') >>
    /\ pc' = "school_talk"
    /\ UNCHANGED <<file, df, overallVars, school_list, selected_school, school_df,
                   school_support_talk, school_ilt_talk, SH_school_data,
                   ILT_school_data>>

\* lines 849-876: the talk-most donuts of the selected school
SchoolTalk ==
    /\ pc = "school_talk"
    /\ school_support_talk' = get_talk_percentages(ByAffiliation(school_df, "SH"))
    /\ school_ilt_talk' = get_talk_percentages(ByAffiliation(school_df, "ILT"))
    /\ rendered' = rendered \o
          << Item("school_talk", "", "header"),
             DonutOrInfo("school_talk", "SH", school_support_talk'),
             DonutOrInfo("school_talk", "ILT", school_ilt_talk') >>
    /\ pc' = "school_focus"
    /\ UNCHANGED <<file, df, overallVars, school_list, selected_school, school_df,
                   school_support_percent, school_ilt_percent, SH_school_data,
                   ILT_school_data>>

\* lines 883-987: the focus-area bars of the selected school; the run ends
SchoolFocus ==
    /\ pc = "school_focus"
    /\ SH_school_data' = FocusData(school_df, "SH")
    /\ ILT_school_data' = FocusData(school_df, "ILT")
    /\ rendered' = rendered \o
          << Item("school_focus", "", "header"),
             Item("school_focus", "", "bars") >>
    /\ pc' = "done"
    /\ UNCHANGED <<file, df, overallVars, school_list, selected_school, school_df,
                   school_support_percent, school_ilt_percent,
                   school_support_talk, school_ilt_talk>>

\* a variant of Rerun that keeps the values of the previous run
RerunKeepsValues ==
    /\ pc \in {"done", "stopped", "crashed"}
    /\ pc' = "start"
    /\ rendered' = <<>>
    /\ UNCHANGED <<file, df, overallVars, schoolVars>>

\* a user interaction after a run has ended: the script runs again from the
\* top on the same upload, with none of the previous run's values
Rerun ==
    /\ pc \in {"done", "stopped", "crashed"}
    /\ pc' = "start"
    /\ rendered' = <<>>
    /\ df' = EmptyBag
    /\ support_percent' = <<>> /\ ilt_percent' = <<>>
    /\ support_talk_percent' = <<>> /\ ilt_talk_percent' = <<>>
    /\ agreement_df' = <<>>
    /\ SH_data' = <<>> /\ ILT_data' = <<>>
    /\ trend_all' = <<>> /\ purpose_counts_all' = <<>> /\ talk_counts_all' = <<>>
    /\ avg_scores' = <<>>
    /\ school_list' = <<>> /\ selected_school' = NaN /\ school_df' = EmptyBag
    /\ school_support_percent' = <<>> /\ school_ilt_percent' = <<>>
    /\ school_support_talk' = <<>> /\ school_ilt_talk' = <<>>
    /\ SH_school_data' = <<>> /\ ILT_school_data' = <<>>
    /\ UNCHANGED file

Next ==
    \/ AwaitUpload
    \/ LoadData
    \/ LoadKeyError
    \/ OverallPurpose
    \/ AgreementSection
    \/ OverallTalk
    \/ OverallFocus
    \/ FocusKeyError
    \/ TheoryTrend
    \/ AllPurpose
    \/ AllTalk
    \/ AccountabilityTrend
    \/ SchoolSelector
    \/ SchoolPurpose
    \/ SchoolTalk
    \/ SchoolFocus
    \/ Rerun

Spec == Init /\ [][Next]_vars

\* ------------------------------------------------------ the donuts of a run
\* the Series and the colour map each donut of the script is drawn from
DonutSeries(section, slot) ==
    CASE section = "overall_purpose" /\ slot = "SH"  -> support_percent
      [] section = "overall_purpose" /\ slot = "ILT" -> ilt_percent
      [] section = "overall_talk" /\ slot = "SH"     -> support_talk_percent
      [] section = "overall_talk" /\ slot = "ILT"    -> ilt_talk_percent
      [] section = "all_purpose"                     -> purpose_counts_all
      [] section = "all_talk"                        -> talk_counts_all
      [] section = "school_purpose" /\ slot = "SH"   -> school_support_percent
      [] section = "school_purpose" /\ slot = "ILT"  -> school_ilt_percent
      [] section = "school_talk" /\ slot = "SH"      -> school_support_talk
      [] section = "school_talk" /\ slot = "ILT"     -> school_ilt_talk

DonutColorMap(section) ==
    IF section \in {"overall_purpose", "all_purpose", "school_purpose"}
    THEN purpose_color_map ELSE talk_color_map

\* the wedges of the donut the run has drawn in the section
DonutOf(section, slot) ==
    plot_donut_fixed_colors(DonutSeries(section, slot), DonutColorMap(section))

\* the bar chart the run has drawn in the focus-area section
FocusChartOf(section) ==
    IF section = "overall_focus" THEN overall_focus_chart(ILT_data, SH_data)
    ELSE school_focus_chart(ILT_school_data, SH_school_data)

\* ============================================================== PROPERTIES
\* ------------------------------------------------- vocabulary of the claims
\* the section has been executed in this run: its header is on the page and
\* is not followed by an exception
Ran(section) ==
    \E i \in 1..Len(rendered) :
        /\ rendered[i] = [section |-> section, slot |-> "", kind |-> "header"]
        /\ ~(i < Len(rendered) /\ rendered[i + 1].kind = "exception")

\* the item is on the page
Shown(section, slot, kind) ==
    \E i \in 1..Len(rendered) : rendered[i] = Item(section, slot, kind)

\* the sum of w[r] over the rows r of bag b, with multiplicity
RECURSIVE Weighted(_, _)
Weighted(b, w) ==
    IF DOMAIN b = {} THEN 0
    ELSE LET r == CHOOSE x \in DOMAIN b : TRUE
         IN  b[r] * w[r] + Weighted([x \in DOMAIN b \ {r} |-> b[x]], w)

SumsTo100(s) == SeriesSum(s).den # 0 /\ FracEq(SeriesSum(s), Frac(100, 1))

Groups == {"SH", "ILT"}

\* the positions of the purpose columns of the uploaded file
PurposePositions == {i \in 1..Len(file.headers) : IsPurposeHeader(file.headers[i])}

\* the number of "Checked" purpose flags of a row
RowChecks(r) == Cardinality({i \in PurposePositions : r.checks[i] = "Checked"})

\* the number of "Checked" purpose flags over the rows of b
TotalChecks(b) == Weighted(b, [r \in DOMAIN b |-> RowChecks(r)])

\* the number of rows of b whose talk-most answer has a canonical label
MappedTalk(b) ==
    Weighted(b, [r \in DOMAIN b |-> IF r.talk \in DOMAIN talk_label_map THEN 1 ELSE 0])

\* the group of an affiliation in the whole table and in the selected school
GroupOf(scope, g) ==
    IF scope = "overall" THEN ByAffiliation(df, g) ELSE ByAffiliation(school_df, g)

\* the purpose and talk-most distributions the run has computed for a group
PurposeSeries(scope, g) ==
    CASE scope = "overall" /\ g = "SH"  -> support_percent
      [] scope = "overall" /\ g = "ILT" -> ilt_percent
      [] scope = "school"  /\ g = "SH"  -> school_support_percent
      [] scope = "school"  /\ g = "ILT" -> school_ilt_percent

TalkSeries(scope, g) ==
    CASE scope = "overall" /\ g = "SH"  -> support_talk_percent
      [] scope = "overall" /\ g = "ILT" -> ilt_talk_percent
      [] scope = "school"  /\ g = "SH"  -> school_support_talk
      [] scope = "school"  /\ g = "ILT" -> school_ilt_talk

Scopes == {"overall", "school"}
PurposeSection(scope) == IF scope = "overall" THEN "overall_purpose" ELSE "school_purpose"
\* the overall talk-most percentages are computed in the purpose section
TalkComputed(scope) == IF scope = "overall" THEN "overall_purpose" ELSE "school_talk"
TalkSection(scope) == IF scope = "overall" THEN "overall_talk" ELSE "school_talk"

\* ---------------------------------------------------------------------- C1
\* C1: for every affiliation group, overall or of the selected school, that
\* has at least one qualifying record (a "Checked" purpose flag; a mapped
\* talk-most answer), the percentages of its purpose distribution, and of
\* its talk-most distribution, sum to 100.
C1_PercentagesSumTo100 ==
    \A scope \in Scopes, g \in Groups :
        /\ (Ran(PurposeSection(scope)) /\ TotalChecks(GroupOf(scope, g)) > 0)
              => SumsTo100(PurposeSeries(scope, g))
        /\ (Ran(TalkComputed(scope)) /\ MappedTalk(GroupOf(scope, g)) > 0)
              => SumsTo100(TalkSeries(scope, g))

\* a finished run in which the SH group of the selected school has a purpose
\* distribution with two non-zero shares and a non-empty talk-most distribution
C1_Witness ==
    /\ pc = "done"
    /\ \E i, j \in 1..Len(school_support_percent) :
          /\ i # j
          /\ school_support_percent[i].num > 0
          /\ school_support_percent[j].num > 0
    /\ school_support_talk # <<>>

\* ---------------------------------------------------------------------- C2
\* C2: for every affiliation group with no qualifying record (no "Checked"
\* purpose flag; no record with a mapped talk-most answer), the computed
\* distribution has no entries at all.
C2_EmptyGroupEmptyDistribution ==
    \A scope \in Scopes, g \in Groups :
        /\ (Ran(PurposeSection(scope)) /\ TotalChecks(GroupOf(scope, g)) = 0)
              => PurposeSeries(scope, g) = <<>>
        /\ (Ran(TalkComputed(scope)) /\ MappedTalk(GroupOf(scope, g)) = 0)
              => TalkSeries(scope, g) = <<>>

\* a finished run in which the ILT group has records, none of them with a
\* "Checked" purpose flag
C2_Witness ==
    /\ pc = "done"
    /\ NRows(ByAffiliation(df, "ILT")) > 0
    /\ TotalChecks(ByAffiliation(df, "ILT")) = 0
    /\ ilt_percent = <<>>

\* ---------------------------------------------------------------------- C5
\* the kinds of item that show data, a widget or a failure
ContentKinds ==
    {"donut", "info", "table", "bars", "line", "selectbox", "warning", "error",
     "exception", "header"}

\* C5: when no file has been uploaded, the run shows the upload prompt (under
\* the page title) and renders nothing else: no data is loaded, no chart,
\* table or school selector is produced, and no error is reported.
C5_NoUploadOnlyPrompt ==
    (~file.present /\ pc # "start") =>
        /\ pc = "stopped"
        /\ Shown("upload", "", "prompt")
        /\ \A i \in 1..Len(rendered) :
              /\ rendered[i].kind \notin ContentKinds
              /\ rendered[i] \in {Title, Item("upload", "", "prompt")}
        /\ df = EmptyBag
        /\ support_percent = <<>> /\ ilt_percent = <<>>
        /\ agreement_df = <<>> /\ SH_data = <<>> /\ ILT_data = <<>>
        /\ school_list = <<>> /\ selected_school = NaN

\* the run without an upload has ended at the prompt
C5_Witness ==
    ~file.present /\ pc = "stopped" /\ Shown("upload", "", "prompt")

\* ---------------------------------------------------------------------- C8
\* the number of rows of b with the flag of the column at position k "Checked"
ColumnChecks(b, k) ==
    Weighted(b, [r \in DOMAIN b |-> IF r.checks[k] = "Checked" THEN 1 ELSE 0])

\* C8: in the purpose donuts, the percentage of a purpose label for a group is
\* 100 times the number of the group's records with that flag "Checked",
\* divided by the number of "Checked" flags over all purpose columns of the
\* group (not by the number of records of the group); 3 checks out of 5 give
\* 60.0.
C8_ShareOfCheckedSelections ==
    \A scope \in Scopes, g \in Groups :
        (Ran(PurposeSection(scope)) /\ TotalChecks(GroupOf(scope, g)) > 0) =>
            LET series == PurposeSeries(scope, g)
                group  == GroupOf(scope, g)
            IN  /\ Len(series) = Cardinality(PurposePositions)
                /\ \A k \in PurposePositions :
                      \E i \in 1..Len(series) :
                          /\ series[i].label = clean_column_name(file.headers[k])
                          /\ series[i].den > 0
                          /\ series[i].num * TotalChecks(group)
                                = 100 * ColumnChecks(group, k) * series[i].den
                          /\ (ColumnChecks(group, k) = 3 /\ TotalChecks(group) = 5)
                                => series[i].num = 60 * series[i].den

\* a finished run whose SH group has 3 records and 5 "Checked" flags, 3 of
\* them in one column, and that column's share is 60
C8_Witness ==
    /\ pc = "done"
    /\ NRows(ByAffiliation(df, "SH")) = 3
    /\ TotalChecks(ByAffiliation(df, "SH")) = 5
    /\ \E i \in 1..Len(support_percent) :
          /\ support_percent[i].label = <<"Provide feedback to individual teachers">>
          /\ support_percent[i].num = 60 * support_percent[i].den
          /\ support_percent[i].den # 0

\* ---------------------------------------------------------------------- C3
FocusSection(scope) == IF scope = "overall" THEN "overall_focus" ELSE "school_focus"

\* the focus-area data the run has computed for a group
FocusSeries(scope, g) ==
    CASE scope = "overall" /\ g = "SH"  -> SH_data
      [] scope = "overall" /\ g = "ILT" -> ILT_data
      [] scope = "school"  /\ g = "SH"  -> SH_school_data
      [] scope = "school"  /\ g = "ILT" -> ILT_school_data

FocusKeySet == {focus_keys[i] : i \in 1..n_focus}

\* the rows of b that answered every focus topic
AnsweredAll(b) == Filter(b, LAMBDA r : \A key \in FocusKeySet : r.focus[key] # NaN)

\* no value of a computed group distribution is the result of a division by 0
NoDivisionByZero ==
    \A scope \in Scopes, g \in Groups :
        /\ \A i \in 1..Len(PurposeSeries(scope, g)) : PurposeSeries(scope, g)[i].den # 0
        /\ \A i \in 1..Len(TalkSeries(scope, g)) : TalkSeries(scope, g)[i].den # 0
        /\ \A i \in 1..Len(FocusSeries(scope, g)) :
              \A j \in 1..Len(FocusSeries(scope, g)[i]) : FocusSeries(scope, g)[i][j].den # 0

\* in the donut sections a group with a zero denominator gets the message in
\* place of its chart
DonutPlaceholders ==
    \A scope \in Scopes, g \in Groups :
        /\ (Ran(PurposeSection(scope)) /\ TotalChecks(GroupOf(scope, g)) = 0)
              => /\ Shown(PurposeSection(scope), g, "info")
                 /\ ~Shown(PurposeSection(scope), g, "donut")
        /\ (Ran(TalkSection(scope)) /\ MappedTalk(GroupOf(scope, g)) = 0)
              => /\ Shown(TalkSection(scope), g, "info")
                 /\ ~Shown(TalkSection(scope), g, "donut")

\* C3 as stated: in every group-level section (purpose donuts, talk-most
\* donuts, focus-area bars, agreement table; overall and per school) a group
\* whose denominator is zero gets an informational placeholder in place of
\* its chart or values, and nothing is divided by zero.
C3_PlaceholderInEverySection ==
    /\ DonutPlaceholders
    /\ NoDivisionByZero
    /\ \A scope \in Scopes, g \in Groups :
          (Ran(FocusSection(scope)) /\ NRows(AnsweredAll(GroupOf(scope, g))) = 0)
              => Shown(FocusSection(scope), g, "info")
    /\ \A g \in Groups :
          (Ran("agreement_table") /\ NRows(ByAffiliation(df, g)) = 0)
              => Shown("agreement_table", g, "info")

\* C3 as amended: in the purpose and talk-most donut sections (overall and
\* per school) a group whose denominator is zero gets an informational
\* placeholder in place of its chart; in the focus-area bars and in the
\* agreement table such a group gets no placeholder: the chart or table is
\* drawn with 0 for every value of that group; nothing is divided by zero.
C3_PlaceholderInDonutsZerosElsewhere ==
    /\ DonutPlaceholders
    /\ NoDivisionByZero
    /\ \A scope \in Scopes, g \in Groups :
          (Ran(FocusSection(scope)) /\ NRows(AnsweredAll(GroupOf(scope, g))) = 0)
              => /\ Shown(FocusSection(scope), "", "bars")
                 /\ ~Shown(FocusSection(scope), g, "info")
                 /\ \A i \in 1..n_focus, j \in 1..n_resp :
                       FocusSeries(scope, g)[i][j].num = 0
    /\ \A g \in Groups :
          (Ran("agreement_table") /\ NRows(ByAffiliation(df, g)) = 0)
              => /\ Shown("agreement_table", "", "table")
                 /\ ~Shown("agreement_table", g, "info")
                 /\ \A k \in 1..Len(agreement_df) :
                       IF g = "SH" THEN agreement_df[k].sh_prop = 0
                       ELSE agreement_df[k].ilt_prop = 0

\* a finished run on a file with records, none of them of the ILT group: the
\* ILT purpose donut is replaced by the message, the bars and the table are drawn
C3_Witness ==
    /\ pc = "done"
    /\ NRows(df) > 0
    /\ NRows(ByAffiliation(df, "ILT")) = 0
    /\ Shown("overall_purpose", "ILT", "info")
    /\ Shown("overall_talk", "ILT", "info")
    /\ Shown("overall_focus", "", "bars")
    /\ Shown("agreement_table", "", "table")

\* ---------------------------------------------------------------------- C4
OverallSections ==
    {"overall_purpose", "agreement_table", "overall_talk", "overall_focus",
     "theory_trend", "all_purpose", "all_talk", "accountability_trend"}

Ended == pc \in {"done", "stopped", "crashed"}

\* C4 as stated: when the uploaded file lacks the "School Name" column, the
\* run ends with an error shown in the school section only: every section
\* that does not read that column is rendered and the run does not crash.
C4_MissingColumnFailsItsSectionOnly ==
    (file.present /\ "School Name" \notin file.cols /\ Ended) =>
        /\ pc # "crashed"
        /\ \A sec \in OverallSections : Ran(sec)
        /\ Shown("school", "", "error")

\* ---------------------------------------------------------------------- C6
\* the sections of the page, in the order their headers were rendered
RECURSIVE HeaderSections(_)
HeaderSections(items) ==
    IF items = <<>> THEN <<>>
    ELSE IF Head(items).kind = "header"
         THEN <<Head(items).section>> \o HeaderSections(Tail(items))
         ELSE HeaderSections(Tail(items))

\* the place of an item on the page, 0 when it is not there
Place(item) ==
    IF \E i \in 1..Len(rendered) : rendered[i] = item
    THEN CHOOSE i \in 1..Len(rendered) : rendered[i] = item
    ELSE 0

HeaderPlace(section) == Place(Item(section, "", "header"))

\* C6 as stated: in every complete run the sections come in the order overall
\* purpose donuts (SH, ILT), overall talk-most donuts (SH, ILT), overall
\* focus-area bar, proportion table, trend line(s), then the school-scoped
\* purpose donuts, talk-most donuts and focus-area bar.
C6_OrderAsStated ==
    pc = "done" =>
        /\ 0 < HeaderPlace("overall_purpose")
        /\ HeaderPlace("overall_purpose") < HeaderPlace("overall_talk")
        /\ HeaderPlace("overall_talk") < HeaderPlace("overall_focus")
        /\ HeaderPlace("overall_focus") < HeaderPlace("agreement_table")
        /\ HeaderPlace("agreement_table") < HeaderPlace("theory_trend")
        /\ HeaderPlace("agreement_table") < HeaderPlace("accountability_trend")
        /\ HeaderPlace("theory_trend") < HeaderPlace("school_purpose")
        /\ HeaderPlace("accountability_trend") < HeaderPlace("school_purpose")
        /\ HeaderPlace("school_purpose") < HeaderPlace("school_talk")
        /\ HeaderPlace("school_talk") < HeaderPlace("school_focus")

CodeOrder ==
    << "overall_purpose", "agreement_table", "overall_talk", "overall_focus",
       "theory_trend", "all_purpose", "all_talk", "accountability_trend",
       "school", "school_purpose", "school_talk", "school_focus" >>

\* the SH item of a two-donut section comes before its ILT item
ShBeforeIlt(section) ==
    \E i, j \in 1..Len(rendered) :
        /\ i < j
        /\ rendered[i].section = section /\ rendered[i].slot = "SH"
        /\ rendered[j].section = section /\ rendered[j].slot = "ILT"

\* C6 as amended: in every complete run the sections come in the order overall
\* purpose donuts (SH, ILT), proportion table, overall talk-most donuts (SH,
\* ILT), overall focus-area bar, theory-of-action trend, the two all-schools
\* donuts (purpose, talk-most), accountability trend, school selector, then the
\* school-scoped purpose donuts, talk-most donuts and focus-area bar; a run
\* that ends early has rendered a prefix of that order.
C6_OrderOfTheScript ==
    /\ Len(HeaderSections(rendered)) <= Len(CodeOrder)
    /\ HeaderSections(rendered) = SubSeq(CodeOrder, 1, Len(HeaderSections(rendered)))
    /\ pc = "done" =>
          /\ HeaderSections(rendered) = CodeOrder
          /\ \A sec \in {"overall_purpose", "overall_talk", "school_purpose", "school_talk"} :
                ShBeforeIlt(sec)

\* a complete run: every section is on the page
C6_Witness == pc = "done" /\ Len(HeaderSections(rendered)) = Len(CodeOrder)

\* ---------------------------------------------------------------------- C7
Blanks(n) == [i \in 1..n |-> " "]

\* the cell is the text core with any number of blanks before and after it
IsPadded(cell, core) ==
    \E a, b \in 0..Len(cell) : cell = Blanks(a) \o <<core>> \o Blanks(b)

\* the group the claim gives a raw affiliation cell, letter case included
StatedGroup(cell) ==
    IF IsPadded(cell, "MNPS Support Hub") THEN "SH"
    ELSE IF IsPadded(cell, "This school's ILT") THEN "ILT"
    ELSE "Unknown"

\* the data preparation has been executed
Loaded ==
    /\ file.present
    /\ pc # "start"
    /\ rendered # <<Title, Item("page", "", "exception")>>

\* the rows of the uploaded file the claim puts in group g, in the whole file
\* or in the selected school
StatedRows(scope, g) ==
    Filter(file.rows, LAMBDA r :
        /\ StatedGroup(r.aff) = g
        /\ scope = "school" => ReplaceSchool(r.school) = selected_school)

\* the Series holds, for the label, the share 100 * count / total
HasShare(series, label, count, total) ==
    \E i \in 1..Len(series) :
        /\ series[i].label = label
        /\ series[i].den # 0
        /\ series[i].num * total = 100 * count * series[i].den

\* the number of rows of b whose talk-most answer maps to the label
TalkAnswers(b, label) ==
    Weighted(b, [r \in DOMAIN b |->
        IF r.talk \in DOMAIN talk_label_map /\ talk_label_map[r.talk] = label
        THEN 1 ELSE 0])

\* the number of rows of b that answered the focus topic with the response
FocusAnswers(b, key, resp) ==
    Weighted(b, [r \in DOMAIN b |-> IF r.focus[key] = resp THEN 1 ELSE 0])

\* the purpose, talk-most and focus aggregates of group g come from rows alone
AggregatesOf(scope, g, rows) ==
    /\ Ran(PurposeSection(scope)) =>
          IF TotalChecks(rows) = 0 THEN PurposeSeries(scope, g) = <<>>
          ELSE \A k \in PurposePositions :
                  HasShare(PurposeSeries(scope, g), clean_column_name(file.headers[k]),
                           ColumnChecks(rows, k), TotalChecks(rows))
    /\ Ran(TalkComputed(scope)) =>
          /\ MappedTalk(rows) = 0 => TalkSeries(scope, g) = <<>>
          /\ \A i \in 1..Len(TalkLabels) :
                IF TalkAnswers(rows, TalkLabels[i]) > 0
                THEN HasShare(TalkSeries(scope, g), TalkLabels[i],
                              TalkAnswers(rows, TalkLabels[i]), MappedTalk(rows))
                ELSE \A k \in 1..Len(TalkSeries(scope, g)) :
                        TalkSeries(scope, g)[k].label # TalkLabels[i]
    /\ Ran(FocusSection(scope)) =>
          \A i \in 1..n_focus, j \in 1..n_resp :
              LET v == FocusSeries(scope, g)[i][j]
                  n == NRows(AnsweredAll(rows))
              IN  /\ v.den # 0
                  /\ v.num * n
                        = 100 * FocusAnswers(AnsweredAll(rows), focus_keys[i],
                                             response_order[j]) * v.den
                  /\ n = 0 => v.num = 0

\* C7: the affiliation mapping is an exact, case-sensitive match after
\* trimming surrounding blanks: "MNPS Support Hub" with or without blanks
\* around it is SH, "This school's ILT" is ILT, every other value (a
\* wrong-case spelling too) is Unknown; a record of Unknown affiliation is
\* counted in no SH or ILT aggregate of any section.
C7_AffiliationExactAfterTrim ==
    Loaded =>
        /\ \A g \in Groups :
              NRows(ByAffiliation(df, g)) = NRows(StatedRows("overall", g))
        /\ NRows(ByAffiliation(df, NaN)) = NRows(StatedRows("overall", "Unknown"))
        /\ \A scope \in Scopes, g \in Groups :
              AggregatesOf(scope, g, StatedRows(scope, g))
        /\ Ran("agreement_table") =>
              \A k \in 1..Len(agreement_df) :
                  /\ NRows(StatedRows("overall", "SH")) = 0 => agreement_df[k].sh_prop = 0
                  /\ NRows(StatedRows("overall", "ILT")) = 0 => agreement_df[k].ilt_prop = 0

\* a finished run on a file whose affiliation cell is "MNPS Support Hub" with
\* a blank on either side: its record is in the SH purpose donut
C7_Witness ==
    /\ pc = "done"
    /\ \E r \in DOMAIN file.rows : r.aff = <<" ", "MNPS Support Hub", " ">>
    /\ support_percent # <<>>
    /\ NRows(ByAffiliation(df, "SH")) = 1

\* ---------------------------------------------------------------------- C9
\* the distribution (0, 0, 0, 100) over the fixed response order
OnlyNotAFocus(dist) ==
    /\ Len(dist) = 4
    /\ dist[1].num = 0 /\ dist[2].num = 0 /\ dist[3].num = 0
    /\ dist[4].den # 0 /\ dist[4].num = 100 * dist[4].den

\* the distribution has one entry per response of the fixed order, in that
\* order: entry j is 0 when no row of b answered the topic with response j
ReindexedOver(dist, b, key) ==
    /\ Len(dist) = Len(response_order)
    /\ \A j \in 1..Len(response_order) :
          /\ dist[j].den # 0
          /\ FocusAnswers(b, key, response_order[j]) = 0 => dist[j].num = 0
          /\ dist[j].num >= 0

\* C9 as stated: for every focus topic and affiliation group (overall and per
\* school) the reindexed distribution has exactly one entry per response of
\* the fixed order (4 entries), in that order, with 0 for every response that
\* does not occur in the group's data; a group whose records all answered
\* "Not a focus" yields (0, 0, 0, 100).
C9_ReindexAsStated ==
    \A scope \in Scopes, g \in Groups :
        Ran(FocusSection(scope)) =>
            \A i \in 1..n_focus :
                /\ ReindexedOver(FocusSeries(scope, g)[i], GroupOf(scope, g), focus_keys[i])
                /\ (/\ NRows(GroupOf(scope, g)) > 0
                    /\ \A r \in DOMAIN GroupOf(scope, g) :
                          r.focus[focus_keys[i]] = "Not a focus")
                      => OnlyNotAFocus(FocusSeries(scope, g)[i])

\* C9 as amended: for every focus topic and affiliation group (overall and per
\* school) the reindexed distribution has exactly one entry per response of
\* the fixed order (4 entries), in that order, with 0 for every response that
\* does not occur in the group's data; a group that has at least one record
\* with an answer to every focus topic, all such records having answered
\* "Not a focus" to the topic, yields (0, 0, 0, 100).
C9_ReindexOverCompleteRecords ==
    \A scope \in Scopes, g \in Groups :
        Ran(FocusSection(scope)) =>
            \A i \in 1..n_focus :
                /\ ReindexedOver(FocusSeries(scope, g)[i], GroupOf(scope, g), focus_keys[i])
                /\ (/\ NRows(AnsweredAll(GroupOf(scope, g))) > 0
                    /\ \A r \in DOMAIN AnsweredAll(GroupOf(scope, g)) :
                          r.focus[focus_keys[i]] = "Not a focus")
                      => OnlyNotAFocus(FocusSeries(scope, g)[i])

\* a finished run whose SH group has a record that answered every topic, all
\* such records with "Not a focus" for the first topic: the bar is (0,0,0,100)
C9_Witness ==
    /\ pc = "done"
    /\ NRows(AnsweredAll(ByAffiliation(df, "SH"))) > 0
    /\ \A r \in DOMAIN AnsweredAll(ByAffiliation(df, "SH")) :
          r.focus[focus_keys[1]] = "Not a focus"
    /\ OnlyNotAFocus(SH_data[1])

\* --------------------------------------------------------------------- C10
\* the distribution is the normalized value counts of the topic over rows b
ValueCountsOver(dist, b, key) ==
    /\ Len(dist) = Len(response_order)
    /\ \A j \in 1..Len(response_order) :
          /\ dist[j].den # 0
          /\ dist[j].num * NRows(b) = 100 * FocusAnswers(b, key, response_order[j]) * dist[j].den
          /\ NRows(b) = 0 => dist[j].num = 0

\* the rows of b that answered the topic
Answered(b, key) == Filter(b, LAMBDA r : r.focus[key] # NaN)

\* the rows of b whose answer to the topic is a response of the fixed order
InOrder(b, key) ==
    Filter(b, LAMBDA r : \E j \in 1..Len(response_order) : r.focus[key] = response_order[j])

\* C10 as stated: for each focus topic and affiliation group the distribution
\* is the normalized value counts of the topic's column over the group's
\* records that have an answer for that topic, whatever they answered to the
\* other topics, and for a non-empty group the percentages sum to 100.
C10_PerTopicAsStated ==
    \A scope \in Scopes, g \in Groups :
        Ran(FocusSection(scope)) =>
            \A i \in 1..n_focus :
                LET rows == Answered(GroupOf(scope, g), focus_keys[i])
                IN  /\ ValueCountsOver(FocusSeries(scope, g)[i], rows, focus_keys[i])
                    /\ NRows(rows) > 0 => SumsTo100(FocusSeries(scope, g)[i])

\* C10 as amended: for each focus topic and affiliation group the distribution
\* is the normalized value counts of the topic's column over the group's
\* records that have an answer for every focus topic (a record that left any
\* focus topic unanswered counts for no topic); when there is such a record,
\* the topic's percentages sum to 100 exactly if all those records answered
\* the topic with a response of the fixed order, and to less otherwise.
C10_PerTopicOverCompleteRecords ==
    \A scope \in Scopes, g \in Groups :
        Ran(FocusSection(scope)) =>
            \A i \in 1..n_focus :
                LET rows == AnsweredAll(GroupOf(scope, g))
                    dist == FocusSeries(scope, g)[i]
                IN  /\ ValueCountsOver(dist, rows, focus_keys[i])
                    /\ NRows(rows) > 0 =>
                          /\ SeriesSum(dist).den # 0
                          /\ SumsTo100(dist)
                                <=> NRows(InOrder(rows, focus_keys[i])) = NRows(rows)
                          /\ ~FracLess(Frac(100, 1), SeriesSum(dist))

\* a finished run whose SH group has one record that answered every topic and
\* one that answered the first topic but not the second: the first topic's
\* bar counts the complete record only
C10_Witness ==
    /\ pc = "done"
    /\ NRows(ByAffiliation(df, "SH")) = 2
    /\ NRows(AnsweredAll(ByAffiliation(df, "SH"))) = 1
    /\ NRows(Answered(ByAffiliation(df, "SH"), focus_keys[1])) = 2
    /\ \E r \in DOMAIN ByAffiliation(df, "SH") :
          r.focus[focus_keys[1]] = "Some focus" /\ r.focus[focus_keys[2]] = NaN
    /\ OnlyNotAFocus(SH_data[1])

\* --------------------------------------------------------------------- C11
\* the purpose columns of the uploaded file, in file order
PurposeOrder == purpose_columns(file.headers)

\* the number of rows of b with the purpose flag at position col "Checked"
ChecksOf(b, col) ==
    Weighted(b, [r \in DOMAIN b |-> IF r.checks[col] = "Checked" THEN 1 ELSE 0])

\* the table's proportion (in tenths of a percent) of a group for row k
PropOf(g, k) == IF g = "SH" THEN agreement_df[k].sh_prop ELSE agreement_df[k].ilt_prop

\* the table has one row per purpose column, under the cleaned label
TableShape ==
    /\ Len(agreement_df) = Len(PurposeOrder)
    /\ \A k \in 1..Len(agreement_df) :
          agreement_df[k].label = clean_column_name(file.headers[PurposeOrder[k]])

\* C11 as stated: in the agreement table, for every purpose label each
\* group's proportion is exactly 100 times the number of the group's records
\* that checked it divided by the number of all records of the group, and
\* Difference is the Support Hub proportion minus the ILT proportion.
C11_ProportionExact ==
    Ran("agreement_table") =>
        /\ TableShape
        /\ \A k \in 1..Len(agreement_df) :
              /\ \A g \in Groups :
                    NRows(ByAffiliation(df, g)) > 0 =>
                        PropOf(g, k) * NRows(ByAffiliation(df, g))
                            = 1000 * ChecksOf(ByAffiliation(df, g), PurposeOrder[k])
              /\ agreement_df[k].difference
                    = agreement_df[k].sh_prop - agreement_df[k].ilt_prop

\* C11 as amended: in the agreement table, for every purpose label each
\* group's proportion is 100 times the number of the group's records that
\* checked it divided by the number of all records of the group (not by the
\* number of checked selections), rounded to one decimal, and 0.0 for a group
\* without records; Difference is the rounded Support Hub proportion minus
\* the rounded ILT proportion.
C11_ProportionRounded ==
    Ran("agreement_table") =>
        /\ TableShape
        /\ \A k \in 1..Len(agreement_df) :
              /\ \A g \in Groups :
                    LET n == NRows(ByAffiliation(df, g))
                        c == ChecksOf(ByAffiliation(df, g), PurposeOrder[k])
                        e == PropOf(g, k) * n - 1000 * c
                    IN  IF n = 0 THEN PropOf(g, k) = 0
                        ELSE 2 * e <= n /\ -2 * e <= n
              /\ agreement_df[k].difference
                    = agreement_df[k].sh_prop - agreement_df[k].ilt_prop

\* a finished run whose table has a row for a purpose that one of three SH
\* records checked, the file having no ILT record: 33.3, 0.0 and 33.3
C11_Witness ==
    /\ pc = "done"
    /\ \E k \in 1..Len(agreement_df) :
          /\ NRows(ByAffiliation(df, "SH")) = 3
          /\ agreement_df[k].sh_prop = 333
          /\ agreement_df[k].difference = 333

\* --------------------------------------------------------------------- C12
\* the colours of the blue gradient and of the red/orange gradient, over the
\* Difference values -100.0 .. 100.0 in tenths
BlueZone ==
    {get_color_gradient(v, 20, 250, blue_start_rgb, blue_end_rgb) : v \in -1000..1000}
RedZone ==
    {get_color_gradient(v, -400, -20, red_end_rgb, red_start_rgb) : v \in -1000..1000}

\* the number of zones the background of a styled cell lies in
ZonesOf(style) ==
    Cardinality({z \in {"neutral", "blue", "red"} :
                    \/ z = "neutral" /\ style.bg = NeutralGrey
                    \/ z = "blue" /\ style.bg \in BlueZone
                    \/ z = "red" /\ style.bg \in RedZone})

\* C12: every Difference value of the table is styled in exactly one of three
\* zones: neutral when it lies within -2.0 to +2.0 inclusive, the blue
\* gradient when it is greater than +2.0, the red/orange gradient when it is
\* less than -2.0; a Difference of 30.0 is in the blue zone.
C12_ThreeZones ==
    Ran("agreement_table") =>
        \A k \in 1..Len(agreement_df) :
            LET d == agreement_df[k].difference
                s == StyledDifference(agreement_df)[k]
            IN  /\ ZonesOf(s) = 1
                /\ (d >= -20 /\ d <= 20) <=> s.bg = NeutralGrey
                /\ d > 20 <=> s.bg \in BlueZone
                /\ d < -20 <=> s.bg \in RedZone
                /\ d = 300 => s.bg \in BlueZone

\* a finished run whose table has a Difference of exactly 2.0 (2.0 against
\* 0.0), styled neutral
C12_Witness ==
    /\ pc = "done"
    /\ \E k \in 1..Len(agreement_df) :
          /\ agreement_df[k].sh_prop = 20
          /\ agreement_df[k].difference = 20
          /\ StyledDifference(agreement_df)[k].bg = NeutralGrey

\* --------------------------------------------------------------------- C13
\* the canonical talk-most labels: the values of the mapping table
CanonicalTalk == {talk_label_map[x] : x \in DOMAIN talk_label_map}

\* every entry of the percentage series has a canonical label and is the
\* share of the rows whose raw answer maps to it among the rows with a mapped
\* answer; every label some row maps to has an entry
TalkSharesOf(series, rows) ==
    /\ \A i \in 1..Len(series) :
          /\ series[i].label \in CanonicalTalk
          /\ series[i].label \notin DOMAIN talk_label_map
          /\ series[i].den # 0
          /\ series[i].num * MappedTalk(rows)
                = 100 * TalkAnswers(rows, series[i].label) * series[i].den
    /\ \A l \in CanonicalTalk :
          TalkAnswers(rows, l) > 0 => \E i \in 1..Len(series) : series[i].label = l
    /\ \A i, j \in 1..Len(series) : series[i].label = series[j].label => i = j

\* C13: every label of a talk-most distribution (of a group, overall or of the
\* selected school, and of all schools combined) is a canonical label, never
\* the raw survey text: a record with raw value "The executive director(s)"
\* is counted under "The executive director", and a record whose raw value
\* has no mapping entry is counted in neither the numerator nor the
\* denominator of any percentage.
C13_CanonicalTalkLabels ==
    /\ \A scope \in Scopes, g \in Groups :
          Ran(TalkComputed(scope)) => TalkSharesOf(TalkSeries(scope, g), GroupOf(scope, g))
    /\ Ran("all_talk") =>
          /\ \A i \in 1..Len(talk_counts_all) :
                /\ talk_counts_all[i].label \in CanonicalTalk
                /\ talk_counts_all[i].num
                      = TalkAnswers(df, talk_counts_all[i].label) * talk_counts_all[i].den
          /\ \A l \in CanonicalTalk :
                TalkAnswers(df, l) > 0
                    => \E i \in 1..Len(talk_counts_all) : talk_counts_all[i].label = l

\* a finished run whose SH group has a record answering "The executive
\* director(s)", one answering another mapped text and one whose answer has
\* no mapping entry: the first is half of the distribution
C13_Witness ==
    /\ pc = "done"
    /\ \E r \in DOMAIN ByAffiliation(df, "SH") : r.talk = "The executive director(s)"
    /\ \E r \in DOMAIN ByAffiliation(df, "SH") : r.talk \notin DOMAIN talk_label_map
    /\ NRows(ByAffiliation(df, "SH")) = 3
    /\ \E i \in 1..Len(support_talk_percent) :
          /\ support_talk_percent[i].label = "The executive director"
          /\ support_talk_percent[i].num * 2 = 100 * support_talk_percent[i].den

\* --------------------------------------------------------------------- C14
\* the score a chart gives to a row
ScoreOf(which, r) ==
    IF which = "theory" THEN TheoryScore(r.theory) ELSE AccountabilityScore(r.account)

\* the rows of b dated on day d that have a valid score for the chart
ValidOn(b, which, d) ==
    Filter(b, LAMBDA r : DateOnly(r.date) = d /\ ScoreOf(which, r) # NoScore)

\* the sum of the chart's scores over the rows of b
ScoreTotal(b, which) == Weighted(b, [r \in DOMAIN b |-> ScoreOf(which, r)])

\* the points of one group in the accountability table: the days on which its
\* column holds a value
GroupPoints(g) ==
    LET days == SelectSeq(avg_scores, LAMBDA e : e[g].den # 0)
    IN  [k \in 1..Len(days) |-> [date |-> days[k].date, num |-> days[k][g].num,
                                  den |-> days[k][g].den]]

\* the points are the means per calendar day of the valid scores of rows,
\* one point per day that has one, ordered by day
MeansPerDay(points, rows, which) ==
    /\ \A d \in Days :
          LET on == ValidOn(rows, which, d)
              at == {k \in 1..Len(points) : points[k].date = d}
          IN  IF NRows(on) = 0 THEN at = {}
              ELSE /\ Cardinality(at) = 1
                   /\ \A k \in at :
                         /\ points[k].den # 0
                         /\ points[k].num * NRows(on)
                               = ScoreTotal(on, which) * points[k].den
    /\ \A k \in 1..Len(points) : points[k].date \in Days
    /\ \A k, l \in 1..Len(points) : k < l => points[k].date < points[l].date

\* C14: each trend series (the theory-of-action series of all records, the
\* accountability series of SH and of ILT) has exactly one point per distinct
\* calendar date on which its group has at least one valid Likert score, the
\* point's value being the mean of those scores; a date on which the group
\* has no valid score has no point, and the points are ordered by date.
C14_OnePointPerDay ==
    /\ (Ran("theory_trend") /\ {"Date", theory_col} \subseteq file.cols)
          => MeansPerDay(trend_all, df, "theory")
    /\ (Ran("accountability_trend") /\ {"Date", accountability_col} \subseteq file.cols)
          => /\ \A g \in Groups :
                   MeansPerDay(GroupPoints(g), ByAffiliation(df, g), "account")
             /\ \A k \in 1..Len(avg_scores) :
                   avg_scores[k].SH.den # 0 \/ avg_scores[k].ILT.den # 0

\* a finished run on a file with two SH records of the same day, scored 4 and
\* 5: both trends have the single point 4.5
C14_Witness ==
    /\ pc = "done"
    /\ NRows(df) = 2
    /\ \E r \in DOMAIN df : r.account = Text("Agree")
    /\ \E r \in DOMAIN df : r.account = Text("Strongly agree")
    /\ Len(trend_all) = 1 /\ trend_all[1].num * 2 = 9 * trend_all[1].den
    /\ Len(avg_scores) = 1 /\ avg_scores[1].SH.num * 2 = 9 * avg_scores[1].SH.den
    /\ avg_scores[1].ILT.den = 0

\* --------------------------------------------------------------------- C15
\* the score of a Likert cell under the one table the claim states
StatedScore(cell) ==
    CASE cell.t = "text" /\ cell.s = "Strongly disagree" -> 1
      [] cell.t = "text" /\ cell.s = "Disagree"          -> 2
      [] cell.t = "text" /\ cell.s = "Neutral"           -> 3
      [] cell.t = "text" /\ cell.s = "Somewhat agree"    -> 3
      [] cell.t = "text" /\ cell.s = "Slightly agree"    -> 3
      [] cell.t = "text" /\ cell.s = "Agree"             -> 4
      [] cell.t = "text" /\ cell.s = "Strongly agree"    -> 5
      [] cell.t = "num" /\ cell.n \in 1..5               -> cell.n
      [] OTHER                                           -> NoScore

\* the points are the means per calendar day of the stated scores of the
\* column col over rows, the rows without a stated score left out
StatedMeansPerDay(points, rows, col) ==
    \A d \in Days :
        LET on == Filter(rows, LAMBDA r : DateOnly(r.date) = d /\ StatedScore(r[col]) # NoScore)
            at == {k \in 1..Len(points) : points[k].date = d}
        IN  IF NRows(on) = 0 THEN at = {}
            ELSE /\ Cardinality(at) = 1
                 /\ \A k \in at :
                       /\ points[k].den # 0
                       /\ points[k].num * NRows(on)
                             = Weighted(on, [r \in DOMAIN on |-> StatedScore(r[col])])
                                  * points[k].den

\* the accountability chart scores its answers by the stated table
C15_AccountabilityByStatedTable ==
    (Ran("accountability_trend") /\ {"Date", accountability_col} \subseteq file.cols)
        => \A g \in Groups :
              StatedMeansPerDay(GroupPoints(g), ByAffiliation(df, g), "account")

\* C15: in both trend charts (theory-of-action and accountability) a Likert
\* answer is scored through one exact-match table: the five scale texts map
\* to 1..5, "Somewhat agree" and "Slightly agree" map to 3, an already-numeric
\* value 1..5 maps to itself, and any other value becomes missing and is
\* excluded from every average.
C15_OneLikertTable ==
    /\ C15_AccountabilityByStatedTable
    /\ (Ran("theory_trend") /\ {"Date", theory_col} \subseteq file.cols)
          => StatedMeansPerDay(trend_all, df, "theory")

\* a finished run on a file whose Likert columns hold the number 4: the
\* accountability chart has the point 4, the theory-of-action chart has none
C15_NumericDropped ==
    /\ pc = "done"
    /\ \E r \in DOMAIN df : r.theory = Num(4) /\ r.account = Num(4)
    /\ NRows(df) = 1
    /\ trend_all = <<>>
    /\ Len(avg_scores) = 1 /\ avg_scores[1].SH.num = 4 * avg_scores[1].SH.den
    /\ Shown("theory_trend", "all", "info")

\* --------------------------------------------------------------------- C16
\* the labels the run shows for the purpose columns
ShownPurposeLabels ==
    {agreement_df[k].label : k \in 1..Len(agreement_df)}
        \cup {support_percent[k].label : k \in 1..Len(support_percent)}
        \cup {purpose_counts_all[k].label : k \in 1..Len(purpose_counts_all)}

\* C16: column-header cleaning is idempotent: for every purpose column header
\* h of the uploaded file, clean_column_name(clean_column_name(h)) equals
\* clean_column_name(h); every short label of the mapping table, and every
\* label the run shows, is returned unchanged.
C16_CleaningIdempotent ==
    /\ \A k \in 1..Len(label_mapping) :
          clean_column_name(label_mapping[k].short) = label_mapping[k].short
    /\ file.present =>
          \A i \in PurposePositions :
              clean_column_name(clean_column_name(file.headers[i]))
                  = clean_column_name(file.headers[i])
    /\ \A l \in ShownPurposeLabels : clean_column_name(l) = l

\* a finished run on a file whose first purpose header holds the long phrase
\* written without the apostrophe: the table shows the short label with it
C16_Witness ==
    /\ pc = "done"
    /\ file.headers[1] = PurposeHeader(label_mapping[4].long)
    /\ agreement_df[1].label = label_mapping[4].short
    /\ label_mapping[4].short # label_mapping[4].long
    /\ clean_column_name(agreement_df[1].label) = agreement_df[1].label

\* --------------------------------------------------------------------- C17
\* the school name the claim states for a raw name
StatedSchool(name) ==
    CASE name = "Cane Ridge" -> "School B"
      [] name = "Hillsboro"  -> "School E"
      [] name = "Maplewood"  -> "School F"
      [] OTHER               -> name

\* the distinct non-null school names of the uploaded data
StatedSchools == {StatedSchool(r.school) : r \in DOMAIN file.rows} \ {NaN}

\* the ascending alphabetical order of the names
Alphabetical(a, b) ==
    \E i, j \in 1..Len(SchoolOrder) : i < j /\ SchoolOrder[i] = a /\ SchoolOrder[j] = b

\* the records of the uploaded file of group g whose school is the selected one
SelectedRows(g) ==
    Filter(file.rows, LAMBDA r :
        StatedGroup(r.aff) = g /\ StatedSchool(r.school) = selected_school)

\* C17: the school dropdown offers exactly the distinct non-null school names
\* of the uploaded data (after the school-name substitution, under which
\* unmapped names pass through unchanged), each once, in ascending
\* alphabetical order; the school-scoped sections use exactly the records
\* whose school name equals the selected one.
C17_DropdownAndScope ==
    Shown("school", "", "selectbox") =>
        /\ {school_list[i] : i \in 1..Len(school_list)} = StatedSchools
        /\ \A i, j \in 1..Len(school_list) :
              i < j => Alphabetical(school_list[i], school_list[j])
        /\ selected_school \in StatedSchools
        /\ NRows(school_df) =
              NRows(Filter(file.rows, LAMBDA r : StatedSchool(r.school) = selected_school))
        /\ \A g \in Groups :
              /\ NRows(ByAffiliation(school_df, g)) = NRows(SelectedRows(g))
              /\ AggregatesOf("school", g, SelectedRows(g))

\* a finished run on a file with a record of "Cane Ridge" and one of
\* "School B": the dropdown offers "School B" once and the school-scoped
\* sections have both records
C17_Witness ==
    /\ pc = "done"
    /\ \E r \in DOMAIN file.rows : r.school = "Cane Ridge"
    /\ \E r \in DOMAIN file.rows : r.school = "School B"
    /\ school_list = <<"School B">>
    /\ selected_school = "School B"
    /\ NRows(school_df) = 2

\* --------------------------------------------------------------------- C18
\* the donuts of the script
Donuts ==
    {<<s, g>> : s \in {"overall_purpose", "overall_talk", "school_purpose", "school_talk"},
                g \in Groups}
        \cup {<<"all_purpose", "all">>, <<"all_talk", "all">>}

\* C18: in every donut the colour of a wedge depends only on its canonical
\* label: a label present in the chart family's colour table always gets that
\* table's colour, the same in the overall view and in the per-school view for
\* every selected school, and a label absent from the table gets the neutral
\* fallback grey.
C18_ColourByLabel ==
    /\ \A d \in Donuts :
          Shown(d[1], d[2], "donut") =>
              LET w == DonutOf(d[1], d[2])
                  t == DonutColorMap(d[1])
              IN  /\ {w[k].label : k \in 1..Len(w)}
                        = {DonutSeries(d[1], d[2])[k].label :
                              k \in 1..Len(DonutSeries(d[1], d[2]))}
                  /\ \A k \in 1..Len(w) :
                        IF w[k].label \in DOMAIN t THEN w[k].color = t[w[k].label]
                        ELSE w[k].color = "#cccccc"
    /\ \A kind \in {"purpose", "talk"}, g \in Groups, h \in Groups \cup {"all"} :
          LET o == IF h = "all" THEN DonutOf(IF kind = "purpose" THEN "all_purpose"
                                                 ELSE "all_talk", "all")
                   ELSE DonutOf(IF kind = "purpose" THEN "overall_purpose"
                                ELSE "overall_talk", h)
              s == DonutOf(IF kind = "purpose" THEN "school_purpose" ELSE "school_talk", g)
          IN  pc = "done" =>
                  \A k \in 1..Len(o), l \in 1..Len(s) :
                      o[k].label = s[l].label => o[k].color = s[l].color

\* a finished run in which a purpose label is the first wedge of the overall
\* SH donut and the second wedge of the selected school's SH donut, in the
\* colour of the table both times
C18_Witness ==
    /\ pc = "done"
    /\ Shown("overall_purpose", "SH", "donut") /\ Shown("school_purpose", "SH", "donut")
    /\ Len(DonutOf("school_purpose", "SH")) = 2
    /\ DonutOf("overall_purpose", "SH")[1].label = DonutOf("school_purpose", "SH")[2].label
    /\ DonutOf("overall_purpose", "SH")[1].color = DonutOf("school_purpose", "SH")[2].color
    /\ DonutOf("overall_purpose", "SH")[1].color # "#cccccc"

\* --------------------------------------------------------------------- C19
\* the share of the whole, in percent, of the wedge with the label
WedgePct(series, label) ==
    LET k     == CHOOSE i \in 1..Len(series) : series[i].label = label
        total == Reduced(SeriesSum(series))
    IN  Reduced(Frac(100 * series[k].num * total.den, series[k].den * total.num))

\* the printed text is the percentage to one decimal
PrintedToOneDecimal(text, pct) ==
    /\ text.shown
    /\ 2 * (text.tenths * pct.den - 10 * pct.num) <= pct.den
    /\ 2 * (10 * pct.num - text.tenths * pct.den) <= pct.den

\* C19 as stated: in every donut the printed percentage label of a wedge is
\* suppressed when the wedge is under 1% of the whole and is printed, with one
\* decimal, when the wedge is 1% of the whole or more.
C19_PrintedFromOnePercent ==
    \A d \in Donuts :
        Shown(d[1], d[2], "donut") =>
            \A k \in 1..Len(DonutOf(d[1], d[2])) :
                LET w   == DonutOf(d[1], d[2])[k]
                    pct == WedgePct(DonutSeries(d[1], d[2]), w.label)
                IN  /\ pct.den > 0
                    /\ IF pct.num < pct.den THEN ~w.text.shown
                       ELSE PrintedToOneDecimal(w.text, pct)

\* C19 as amended: in every donut the printed percentage label of a wedge is
\* suppressed when the wedge is 1% of the whole or less and is printed, with
\* one decimal, when the wedge is more than 1% of the whole.
C19_PrintedAboveOnePercent ==
    \A d \in Donuts :
        Shown(d[1], d[2], "donut") =>
            \A k \in 1..Len(DonutOf(d[1], d[2])) :
                LET w   == DonutOf(d[1], d[2])[k]
                    pct == WedgePct(DonutSeries(d[1], d[2]), w.label)
                IN  /\ pct.den > 0
                    /\ IF pct.num <= pct.den THEN ~w.text.shown
                       ELSE PrintedToOneDecimal(w.text, pct)

\* a finished run whose overall SH purpose donut has a wedge of exactly 1%,
\* without text, beside a wedge printed as 99.0%
C19_Witness ==
    /\ pc = "done"
    /\ Shown("overall_purpose", "SH", "donut")
    /\ Len(DonutOf("overall_purpose", "SH")) = 2
    /\ FracEq(WedgePct(support_percent, DonutOf("overall_purpose", "SH")[2].label),
              Frac(1, 1))
    /\ ~DonutOf("overall_purpose", "SH")[2].text.shown
    /\ DonutOf("overall_purpose", "SH")[1].text = [shown |-> TRUE, tenths |-> 990]

\* --------------------------------------------------------------------- C20
\* the positions of a run at and after the school selector
SchoolPhase == {"school", "school_purpose", "school_talk", "school_focus"}
SchoolSections == {"school", "school_purpose", "school_talk", "school_focus"}

\* what the run has put on the page outside the school-scoped sections
OverallRendered == SelectSeq(rendered, LAMBDA it : it.section \notin SchoolSections)

\* the overall aggregates are those of the uploaded file's records, whatever
\* the selected school
OverallFromFile ==
    (file.present /\ pc \in SchoolPhase \cup {"done"}) =>
        /\ df = MapBag(file.rows, PrepareRow)
        /\ \A g \in Groups : AggregatesOf("overall", g, StatedRows("overall", g))
        /\ OverallRendered = rendered
              \/ \E i \in 1..Len(rendered) :
                    /\ rendered[i].section = "school"
                    /\ OverallRendered = SubSeq(rendered, 1, i - 1)

\* the selection of a school and the school-scoped sections leave every
\* overall value and everything drawn before them as they are
SchoolStepKeepsOverall ==
    pc \in SchoolPhase =>
        /\ df' = df
        /\ overallVars' = overallVars
        /\ OverallRendered' = OverallRendered

\* a new run starts from the uploaded file alone
RunStartsFresh ==
    pc \in {"done", "stopped", "crashed"} =>
        /\ pc' = "start" /\ rendered' = <<>> /\ df' = EmptyBag
        /\ support_percent' = <<>> /\ ilt_percent' = <<>>
        /\ support_talk_percent' = <<>> /\ ilt_talk_percent' = <<>>
        /\ agreement_df' = <<>> /\ SH_data' = <<>> /\ ILT_data' = <<>>
        /\ trend_all' = <<>> /\ purpose_counts_all' = <<>>
        /\ talk_counts_all' = <<>> /\ avg_scores' = <<>>
        /\ school_list' = <<>> /\ selected_school' = NaN /\ school_df' = EmptyBag
        /\ school_support_percent' = <<>> /\ school_ilt_percent' = <<>>
        /\ school_support_talk' = <<>> /\ school_ilt_talk' = <<>>
        /\ SH_school_data' = <<>> /\ ILT_school_data' = <<>>

\* C20: for a fixed uploaded file, the content of every overall (not
\* school-scoped) section is the same whichever school is selected: a change
\* of school selection re-runs the whole pipeline from the file (no value of
\* the previous run is carried over), the file stays the same, and the
\* school selection and the school-scoped sections change no overall value.
C20_OverallIndependentOfSchool ==
    /\ []OverallFromFile
    /\ [][file' = file /\ SchoolStepKeepsOverall /\ RunStartsFresh]_vars

\* a finished run on a file with two schools, the second one selected, whose
\* SH purpose donut of the school differs from the overall one
C20_Witness ==
    /\ pc = "done"
    /\ Len(school_list) = 2
    /\ selected_school = school_list[2]
    /\ support_percent # <<>>
    /\ school_support_percent # support_percent


\* --------------------------------------------------------------------- C21
\* the two places of topic i: its tick minus and plus half the bar width
PlacesOf(chart, i) ==
    << Minus(chart.xticks[i], Half(bar_width)), Plus(chart.xticks[i], Half(bar_width)) >>

\* the rectangles drawn centred on place p, in the order they were drawn
SegmentsAt(chart, p) == SelectSeq(chart.bars, LAMBDA b : FracEq(b.x, p))

\* the texts printed beneath place p
TextsAt(chart, p) ==
    {chart.texts[k].text : k \in {n \in 1..Len(chart.texts) : FracEq(chart.texts[n].x, p)}}

\* the heights of the first j - 1 segments, added up
RECURSIVE HeightBelow(_, _)
HeightBelow(segs, j) ==
    IF j <= 1 THEN Zero ELSE Plus(HeightBelow(segs, j - 1), segs[j - 1].height)

\* the colour the legend gives for a response level: none, one or several
LegendColors(chart, level) ==
    {chart.legend[k].color : k \in {n \in 1..Len(chart.legend) : chart.legend[n].label = level}}

\* the bar at place p shows the distribution dist of one group on one topic:
\* one segment per response level, of the width of a bar, in the fixed order
\* from the bottom, each of the colour the legend pairs with its level
BarShows(chart, p, dist) ==
    LET segs == SegmentsAt(chart, p)
    IN  /\ Len(segs) = n_resp
        /\ \A j \in 1..n_resp :
              /\ FracEq(segs[j].height, dist[j])
              /\ FracEq(segs[j].bottom, HeightBelow(segs, j))
              /\ FracEq(segs[j].width, bar_width)
              /\ LegendColors(chart, response_order[j]) = {segs[j].color}

\* the chart of a scope is the one the claim describes
FocusChartAsStated(scope) ==
    LET chart == FocusChartOf(FocusSection(scope))
    IN  /\ Len(chart.bars) = 2 * n_focus * n_resp
        /\ Len(chart.texts) = 2 * n_focus
        /\ Len(chart.legend) = n_resp
        /\ \A j, k \in 1..n_resp :
              j # k => LegendColors(chart, response_order[j])
                          # LegendColors(chart, response_order[k])
        /\ \A i \in 1..n_focus :
              \E left, right \in Groups :
                  /\ left # right
                  /\ TextsAt(chart, PlacesOf(chart, i)[1]) = {left}
                  /\ TextsAt(chart, PlacesOf(chart, i)[2]) = {right}
                  /\ BarShows(chart, PlacesOf(chart, i)[1], FocusSeries(scope, left)[i])
                  /\ BarShows(chart, PlacesOf(chart, i)[2], FocusSeries(scope, right)[i])

\* the section's bar chart is the item the run has drawn last: the chart is
\* made of the values the focus-area data have at this moment
JustDrawn(section) ==
    rendered # <<>> /\ rendered[Len(rendered)] = Item(section, "", "bars")

\* C21: in the overall and in the per-school focus-area chart, as drawn,
\* every topic has its two bars at the tick position minus and plus half the
\* bar width,
\* the label beneath a bar names the affiliation whose distribution the bar
\* shows, the segments of a bar are stacked in the fixed response order from
\* the bottom, and every legend entry pairs a response level with the colour
\* of that level's segments.
C21_FocusBarsAsStated ==
    \A scope \in Scopes : JustDrawn(FocusSection(scope)) => FocusChartAsStated(scope)

\* both charts are on the page; in the school's chart the SH bar of the
\* first topic is two segments of 50 each ("Some focus" under "Not a
\* focus"), labelled SH at the tick plus half the bar width, and the ILT bar
\* of that topic is empty
C21_Witness ==
    /\ pc = "done"
    /\ Shown("overall_focus", "", "bars")
    /\ JustDrawn("school_focus")
    /\ LET chart == FocusChartOf("school_focus")
           segs  == SegmentsAt(chart, PlacesOf(chart, 1)[2])
       IN  /\ TextsAt(chart, PlacesOf(chart, 1)[2]) = {"SH"}
           /\ FracEq(segs[2].height, Frac(50, 1))
           /\ FracEq(segs[4].height, Frac(50, 1))
           /\ FracEq(segs[4].bottom, Frac(50, 1))
           /\ \A j \in 1..n_resp : FracEq(ILT_school_data[1][j], Zero)
=============================================================================
